---- MODULE Spec2Model ----
(***************************************************************************)
(* azperm: Azure CLI command -> RBAC permission resolution.                *)
(*                                                                         *)
(* The repository holds two programs that resolve a command:               *)
(*   "legacy"  src/main.go            (monolithic main, getRequiredPermissions) *)
(*   "cli"     src/cmd/cli.go         (CLI.Run, CLI.getPermissions)        *)
(* and the library fallback Manager.GetPermissions                         *)
(*   "manager" src/internal/permissions/manager.go                         *)
(* Strings are TLA+ strings; the Go strings package is modelled below by   *)
(* what each function computes.                                            *)
(***************************************************************************)
EXTENDS Integers, Sequences, FiniteSets, TLC

(***************************************************************************)
(* Go strings package                                                      *)
(***************************************************************************)
Contains(s, sub) ==
    \E i \in 1..(Len(s) - Len(sub) + 1) : SubSeq(s, i, i + Len(sub) - 1) = sub

HasPrefix(s, p) == Len(p) <= Len(s) /\ SubSeq(s, 1, Len(p)) = p

HasSuffix(s, p) == Len(p) <= Len(s) /\ SubSeq(s, Len(s) - Len(p) + 1, Len(s)) = p

TrimPrefix(s, p) == IF HasPrefix(s, p) THEN SubSeq(s, Len(p) + 1, Len(s)) ELSE s

TrimSuffix(s, p) == IF HasSuffix(s, p) THEN SubSeq(s, 1, Len(s) - Len(p)) ELSE s

UpperToLower ==
    [A |-> "a", B |-> "b", C |-> "c", D |-> "d", E |-> "e", F |-> "f", G |-> "g",
     H |-> "h", I |-> "i", J |-> "j", K |-> "k", L |-> "l", M |-> "m", N |-> "n",
     O |-> "o", P |-> "p", Q |-> "q", R |-> "r", S |-> "s", T |-> "t", U |-> "u",
     V |-> "v", W |-> "w", X |-> "x", Y |-> "y", Z |-> "z"]

RECURSIVE ToLower(_)
ToLower(s) ==
    IF Len(s) = 0 THEN ""
    ELSE IF Len(s) = 1
    THEN (IF s \in DOMAIN UpperToLower THEN UpperToLower[s] ELSE s)
    ELSE LET half == Len(s) \div 2
         IN  ToLower(SubSeq(s, 1, half)) \o ToLower(SubSeq(s, half + 1, Len(s)))

IsSpace(c) == c \in {" ", "\t"}

\* index of the first character of s at or after i for which space-ness is `sp`,
\* Len(s) + 1 when there is none
RECURSIVE Scan(_, _, _)
Scan(s, i, sp) ==
    IF i > Len(s) THEN Len(s) + 1
    ELSE IF IsSpace(SubSeq(s, i, i)) = sp THEN i
    ELSE Scan(s, i + 1, sp)

RECURSIVE FieldsFrom(_, _)
FieldsFrom(s, i) ==
    LET b == Scan(s, i, FALSE)
    IN  IF b > Len(s) THEN <<>>
        ELSE LET e == Scan(s, b, TRUE)
             IN  <<SubSeq(s, b, e - 1)>> \o FieldsFrom(s, e)

Fields(s) == FieldsFrom(s, 1)

RECURSIVE LastNonSpace(_, _)
LastNonSpace(s, i) ==
    IF i < 1 THEN 0
    ELSE IF IsSpace(SubSeq(s, i, i)) THEN LastNonSpace(s, i - 1)
    ELSE i

TrimSpace(s) == SubSeq(s, Scan(s, 1, FALSE), LastNonSpace(s, Len(s)))

RECURSIVE Join(_, _)
Join(parts, sep) ==
    IF Len(parts) = 0 THEN ""
    ELSE IF Len(parts) = 1 THEN parts[1]
    ELSE parts[1] \o sep \o Join(Tail(parts), sep)

\* index of the first occurrence of the one-character string c in s at or after i
RECURSIVE IndexFrom(_, _, _)
IndexFrom(s, c, i) ==
    IF i > Len(s) THEN 0
    ELSE IF SubSeq(s, i, i) = c THEN i
    ELSE IndexFrom(s, c, i + 1)

\* strings.Split(s, c) for a one-character separator
RECURSIVE SplitFrom(_, _, _)
SplitFrom(s, c, i) ==
    LET j == IndexFrom(s, c, i)
    IN  IF j = 0 THEN <<SubSeq(s, i, Len(s))>>
        ELSE <<SubSeq(s, i, j - 1)>> \o SplitFrom(s, c, j + 1)

Split(s, c) == SplitFrom(s, c, 1)

\* strings.Count(s, c) for a one-character c
Count(s, c) == Len(Split(s, c)) - 1

\* strings.ReplaceAll(s, c, new) for a one-character c
ReplaceAll(s, c, new) == Join(Split(s, c), new)

Range(seq) == {seq[i] : i \in 1..Len(seq)}


(***************************************************************************)
(* Command Parser: parser.ParseAzureCommand (main.go parseAzureCommand is   *)
(* the same code). A failed parse is [ok |-> FALSE].                        *)
(***************************************************************************)
\* a parameter loop in which the first occurrence of a flag wins
RECURSIVE ParseParameters_FirstWins(_, _, _)
ParseParameters_FirstWins(parts, i, acc) ==
    IF i > Len(parts) THEN acc
    ELSE IF HasPrefix(parts[i], "--")
    THEN LET paramName == TrimPrefix(parts[i], "--")
             hasValue  == i + 1 <= Len(parts) /\ ~HasPrefix(parts[i + 1], "--")
             paramValue == IF hasValue THEN parts[i + 1] ELSE ""
         IN  ParseParameters_FirstWins(parts, IF hasValue THEN i + 2 ELSE i + 1,
                                       acc @@ (paramName :> paramValue))
    ELSE ParseParameters_FirstWins(parts, i + 1, acc)

RECURSIVE ParseParameters(_, _, _)
ParseParameters(parts, i, acc) ==
    IF i > Len(parts) THEN acc
    ELSE IF HasPrefix(parts[i], "--")
    THEN LET paramName == TrimPrefix(parts[i], "--")
             hasValue  == i + 1 <= Len(parts) /\ ~HasPrefix(parts[i + 1], "--")
             paramValue == IF hasValue THEN parts[i + 1] ELSE ""
         IN  ParseParameters(parts, IF hasValue THEN i + 2 ELSE i + 1,
                             (paramName :> paramValue) @@ acc)
    ELSE ParseParameters(parts, i + 1, acc)

ParseFailure == [ok |-> FALSE]

\* a length test that also rejects a command of two words
TooFewParts_Three(parts) == Len(parts) < 3

\* len(parts) < 2
TooFewParts(parts) == Len(parts) < 2

\* a service test that never finds a two-word service
IsMultiPart_Never(parts) == FALSE

\* len(parts) > 2 && !strings.HasPrefix(parts[2], "--")
IsMultiPart(parts) == Len(parts) > 2 /\ ~HasPrefix(parts[3], "--")

ParseAzureCommand(input) ==
    LET trimmed == TrimSpace(input)
        stripped == IF HasPrefix(trimmed, "az ") THEN TrimPrefix(trimmed, "az ") ELSE trimmed
        parts == Fields(stripped)
    IN  IF TooFewParts(parts) THEN ParseFailure
        ELSE LET multi == IsMultiPart(parts)
                 service == IF multi THEN parts[1] \o " " \o parts[2] ELSE parts[1]
                 operation == IF multi THEN parts[3] ELSE parts[2]
                 rest == IF multi THEN Tail(parts) ELSE parts
             IN  [ok |-> TRUE,
                  Service |-> service,
                  Operation |-> operation,
                  Parameters |-> ParseParameters(rest, 3, <<>>),
                  FullCmd |-> service \o " " \o operation]

(***************************************************************************)
(* Resource Mapper                                                         *)
(***************************************************************************)
\* serviceMap of getResourceProviderForService
ProviderServiceMap ==
    [group |-> "Microsoft.Resources", vm |-> "Microsoft.Compute",
     storage |-> "Microsoft.Storage", webapp |-> "Microsoft.Web",
     functionapp |-> "Microsoft.Web", keyvault |-> "Microsoft.KeyVault",
     network |-> "Microsoft.Network", sql |-> "Microsoft.Sql",
     aks |-> "Microsoft.ContainerService", cosmosdb |-> "Microsoft.DocumentDB",
     role |-> "Microsoft.Authorization", ad |-> "Microsoft.Graph",
     monitor |-> "Microsoft.Insights", backup |-> "Microsoft.RecoveryServices",
     cdn |-> "Microsoft.Cdn", redis |-> "Microsoft.Cache",
     servicebus |-> "Microsoft.ServiceBus", eventhub |-> "Microsoft.EventHub",
     iot |-> "Microsoft.Devices", batch |-> "Microsoft.Batch",
     hdinsight |-> "Microsoft.HDInsight", search |-> "Microsoft.Search",
     cognitiveservices |-> "Microsoft.CognitiveServices"]

\* The loop ranges over a Go map, whose iteration order is unspecified: the
\* value returned is the provider of any key contained in the service. The
\* operator is the set of values one call can return ("" when no key matches).
FirstMatchInMapOrder(table, service) ==
    LET hits == {k \in DOMAIN table : Contains(service, k)}
    IN  IF hits = {} THEN {""} ELSE {table[k] : k \in hits}

getResourceProviderForService(service) == FirstMatchInMapOrder(ProviderServiceMap, service)

\* serviceMap of CLI.mapServiceToProvider
CliServiceMap ==
    [group |-> "Microsoft.Resources", vm |-> "Microsoft.Compute",
     storage |-> "Microsoft.Storage", webapp |-> "Microsoft.Web",
     keyvault |-> "Microsoft.KeyVault", network |-> "Microsoft.Network",
     sql |-> "Microsoft.Sql", aks |-> "Microsoft.ContainerService",
     role |-> "Microsoft.Authorization"]

mapServiceToProvider(service) == FirstMatchInMapOrder(CliServiceMap, service)

ResourceTypeServiceMap ==
    ("group" :> "subscriptions/resourceGroups") @@ ("vm" :> "virtualMachines") @@
    ("storage account" :> "storageAccounts") @@
    ("storage blob" :> "storageAccounts/blobServices") @@
    ("webapp" :> "sites") @@ ("functionapp" :> "sites") @@ ("keyvault" :> "vaults") @@
    ("network vnet" :> "virtualNetworks") @@ ("network nsg" :> "networkSecurityGroups") @@
    ("sql server" :> "servers") @@ ("sql db" :> "servers/databases") @@
    ("aks" :> "managedClusters") @@ ("cosmosdb" :> "databaseAccounts") @@
    ("role assignment" :> "roleAssignments") @@ ("role definition" :> "roleDefinitions") @@
    ("ad user" :> "users")

getResourceTypeForService(service) ==
    IF service \in DOMAIN ResourceTypeServiceMap THEN ResourceTypeServiceMap[service]
    ELSE LET parts == Fields(service)
         IN  IF Len(parts) > 1 THEN Join(parts, "") ELSE service

(***************************************************************************)
(* Heuristic inference: suggestPermissionsByOperation (manager.go and the   *)
(* identical main.go copy). `resourceProvider` is the value the call to     *)
(* getResourceProviderForService returned.                                  *)
(***************************************************************************)
HeuristicOperationMap ==
    [create |-> "write", update |-> "write", set |-> "write", delete |-> "delete",
     remove |-> "delete", list |-> "read", show |-> "read", get |-> "read",
     start |-> "start/action", stop |-> "powerOff/action",
     restart |-> "restart/action", scale |-> "scale/action"]

\* a heuristic that takes "stop" for a "stop/action" and knows no "scale"
suggestPermissionsByOperation_OtherVerbs(c, resourceProvider) ==
    LET operationMap == [create |-> "write", update |-> "write", set |-> "write",
                         delete |-> "delete", remove |-> "delete", list |-> "read",
                         show |-> "read", get |-> "read", start |-> "start/action",
                         stop |-> "stop/action", restart |-> "restart/action"]
    IN  IF c.Operation \in DOMAIN operationMap /\ resourceProvider # ""
        THEN <<resourceProvider \o "/" \o getResourceTypeForService(c.Service) \o "/"
               \o operationMap[c.Operation]>>
        ELSE <<>>

suggestPermissionsByOperation(c, resourceProvider) ==
    IF c.Operation \in DOMAIN HeuristicOperationMap /\ resourceProvider # ""
    THEN <<resourceProvider \o "/" \o getResourceTypeForService(c.Service) \o "/"
           \o HeuristicOperationMap[c.Operation]>>
    ELSE <<>>

(***************************************************************************)
(* main.go: command -> REST API mapping                                    *)
(***************************************************************************)
NoMapping == [ok |-> FALSE, Method |-> "", Path |-> "", Permissions |-> <<>>]

Mapping(method, path, permissions) ==
    [ok |-> TRUE, Method |-> method, Path |-> path, Permissions |-> permissions]

ProvidersPath ==
    "/subscriptions/{subscriptionId}/resourceGroups/{resourceGroupName}/providers/"

\* commandMappings of mapCommandToRestAPI
commandMappings ==
    ("group create" :> Mapping("PUT",
        "/subscriptions/{subscriptionId}/resourcegroups/{resourceGroupName}",
        <<"Microsoft.Resources/subscriptions/resourceGroups/write">>)) @@
    ("group delete" :> Mapping("DELETE",
        "/subscriptions/{subscriptionId}/resourcegroups/{resourceGroupName}",
        <<"Microsoft.Resources/subscriptions/resourceGroups/delete">>)) @@
    ("vm create" :> Mapping("PUT",
        ProvidersPath \o "Microsoft.Compute/virtualMachines/{vmName}",
        <<"Microsoft.Compute/virtualMachines/write",
          "Microsoft.Network/networkInterfaces/write",
          "Microsoft.Network/publicIPAddresses/write">>)) @@
    ("vm start" :> Mapping("POST",
        ProvidersPath \o "Microsoft.Compute/virtualMachines/{vmName}/start",
        <<"Microsoft.Compute/virtualMachines/start/action">>)) @@
    ("vm stop" :> Mapping("POST",
        ProvidersPath \o "Microsoft.Compute/virtualMachines/{vmName}/powerOff",
        <<"Microsoft.Compute/virtualMachines/powerOff/action">>)) @@
    ("storage account create" :> Mapping("PUT",
        ProvidersPath \o "Microsoft.Storage/storageAccounts/{accountName}",
        <<"Microsoft.Storage/storageAccounts/write">>)) @@
    ("keyvault create" :> Mapping("PUT",
        ProvidersPath \o "Microsoft.KeyVault/vaults/{vaultName}",
        <<"Microsoft.KeyVault/vaults/write">>)) @@
    ("keyvault secret set" :> Mapping("PUT",
        ProvidersPath \o "Microsoft.KeyVault/vaults/{vaultName}/secrets/{secretName}",
        <<"Microsoft.KeyVault/vaults/secrets/setSecret/action">>)) @@
    ("webapp create" :> Mapping("PUT",
        ProvidersPath \o "Microsoft.Web/sites/{name}",
        <<"Microsoft.Web/sites/write">>)) @@
    ("sql server create" :> Mapping("PUT",
        ProvidersPath \o "Microsoft.Sql/servers/{serverName}",
        <<"Microsoft.Sql/servers/write">>)) @@
    ("aks create" :> Mapping("PUT",
        ProvidersPath \o "Microsoft.ContainerService/managedClusters/{resourceName}",
        <<"Microsoft.ContainerService/managedClusters/write",
          "Microsoft.Network/virtualNetworks/subnets/join/action">>))

KeyVaultSecretOps ==
    [set |-> Mapping("PUT", "", <<"Microsoft.KeyVault/vaults/secrets/setSecret/action">>),
     show |-> Mapping("GET", "", <<"Microsoft.KeyVault/vaults/secrets/getSecret/action">>),
     get |-> Mapping("GET", "", <<"Microsoft.KeyVault/vaults/secrets/getSecret/action">>),
     delete |-> Mapping("DELETE", "", <<"Microsoft.KeyVault/vaults/secrets/delete">>),
     list |-> Mapping("GET", "", <<"Microsoft.KeyVault/vaults/secrets/readMetadata/action">>)]

KeyVaultKeyOps ==
    [create |-> Mapping("PUT", "", <<"Microsoft.KeyVault/vaults/keys/create/action">>),
     show |-> Mapping("GET", "", <<"Microsoft.KeyVault/vaults/keys/read">>),
     get |-> Mapping("GET", "", <<"Microsoft.KeyVault/vaults/keys/read">>),
     delete |-> Mapping("DELETE", "", <<"Microsoft.KeyVault/vaults/keys/delete">>),
     list |-> Mapping("GET", "", <<"Microsoft.KeyVault/vaults/keys/read">>)]

KeyVaultCertificateOps ==
    [create |-> Mapping("PUT", "", <<"Microsoft.KeyVault/vaults/certificates/create/action">>),
     show |-> Mapping("GET", "", <<"Microsoft.KeyVault/vaults/certificates/read">>),
     get |-> Mapping("GET", "", <<"Microsoft.KeyVault/vaults/certificates/read">>),
     delete |-> Mapping("DELETE", "", <<"Microsoft.KeyVault/vaults/certificates/delete">>),
     list |-> Mapping("GET", "", <<"Microsoft.KeyVault/vaults/certificates/read">>)]

mapKeyVaultCommand(c) ==
    LET parts == Fields(c.Service \o " " \o c.Operation)
        pick(ops, pathTemplate) ==
            IF parts[3] \in DOMAIN ops
            THEN [ops[parts[3]] EXCEPT !.Path = pathTemplate]
            ELSE NoMapping
    IN  IF Len(parts) < 3 THEN NoMapping
        ELSE CASE parts[2] = "secret" ->
                    pick(KeyVaultSecretOps,
                         ProvidersPath \o "Microsoft.KeyVault/vaults/{vaultName}/secrets/{secretName}")
               [] parts[2] = "key" ->
                    pick(KeyVaultKeyOps,
                         ProvidersPath \o "Microsoft.KeyVault/vaults/{vaultName}/keys/{keyName}")
               [] parts[2] = "certificate" ->
                    pick(KeyVaultCertificateOps,
                         ProvidersPath \o "Microsoft.KeyVault/vaults/{vaultName}/certificates/{certificateName}")
               [] OTHER -> NoMapping

\* switch cmd.Operation of intelligentAPIMapping: method, path suffix, action
IntelligentOps ==
    [create |-> <<"PUT", "", "write">>, update |-> <<"PUT", "", "write">>,
     set |-> <<"PUT", "", "write">>, delete |-> <<"DELETE", "", "delete">>,
     remove |-> <<"DELETE", "", "delete">>, list |-> <<"GET", "", "read">>,
     show |-> <<"GET", "", "read">>, get |-> <<"GET", "", "read">>,
     start |-> <<"POST", "/start", "start/action">>,
     stop |-> <<"POST", "/powerOff", "powerOff/action">>,
     restart |-> <<"POST", "/restart", "restart/action">>]

\* `provider` is the value getResourceProviderForService returned
intelligentAPIMapping(c, provider) ==
    IF HasPrefix(c.Service, "keyvault") THEN mapKeyVaultCommand(c)
    ELSE LET resourceType == getResourceTypeForService(c.Service)
         IN  IF provider = "" \/ resourceType = "" THEN NoMapping
             ELSE IF c.Operation \notin DOMAIN IntelligentOps THEN NoMapping
             ELSE LET op == IntelligentOps[c.Operation]
                  IN  Mapping(op[1],
                              ProvidersPath \o provider \o "/" \o resourceType
                                  \o "/{resourceName}" \o op[2],
                              <<provider \o "/" \o resourceType \o "/" \o op[3]>>)

mapCommandToRestAPI(c, provider) ==
    IF c.FullCmd \in DOMAIN commandMappings THEN commandMappings[c.FullCmd]
    ELSE intelligentAPIMapping(c, provider)

(***************************************************************************)
(* main.go: live query and operation matching                              *)
(* A provider operation is [Name, IsDataAction]; a catalog entry is        *)
(* [Operations, ResourceTypes] with ResourceTypes a sequence of            *)
(* [Name, Operations].                                                     *)
(***************************************************************************)
RECURSIVE Flatten(_)
Flatten(seqs) == IF seqs = <<>> THEN <<>> ELSE Head(seqs) \o Flatten(Tail(seqs))

Names(ops) == [i \in 1..Len(ops) |-> ops[i].Name]

\* index of the first "providers" segment that has a successor, 0 if none
ProvidersIndex(parts) ==
    LET hits == {i \in 1..Len(parts) : parts[i] = "providers" /\ i + 1 <= Len(parts)}
    IN  IF hits = {} THEN 0 ELSE CHOOSE i \in hits : \A j \in hits : i <= j

extractProviderFromPath(path) ==
    LET parts == Split(path, "/")
        p == ProvidersIndex(parts)
    IN  IF p # 0 THEN parts[p + 1]
        ELSE IF Contains(path, "/resourcegroups/") \/ Contains(path, "/resourceGroups/")
        THEN "Microsoft.Resources"
        ELSE ""

\* the operations queryProviderOperations returns when the query succeeds
queryProviderOperations(response) ==
    response.Operations
        \o Flatten([i \in 1..Len(response.ResourceTypes) |-> response.ResourceTypes[i].Operations])

isKeyVaultOperation(provider, resourceType, subResourceType) ==
    /\ provider = "Microsoft.KeyVault"
    /\ resourceType = "vaults"
    /\ subResourceType \in {"secrets", "keys", "certificates"}

\* the patterns for the path components generatePrecisePatterns extracted
PrecisePatterns(method, provider, resourceType, subResourceType, action) ==
    LET basePattern == IF subResourceType # ""
                       THEN provider \o "/" \o resourceType \o "/" \o subResourceType
                       ELSE provider \o "/" \o resourceType
        kv == isKeyVaultOperation(provider, resourceType, subResourceType)
    IN  IF provider = "" \/ resourceType = "" THEN <<>>
        ELSE CASE method = "GET" ->
                    IF kv THEN <<basePattern \o "/getSecret/action", basePattern \o "/read">>
                    ELSE <<basePattern \o "/read">>
               [] method = "POST" ->
                    IF action # "" THEN <<basePattern \o "/" \o action \o "/action">>
                    ELSE <<basePattern \o "/write">>
               [] method = "PUT" ->
                    IF kv THEN <<basePattern \o "/setSecret/action", basePattern \o "/write">>
                    ELSE <<basePattern \o "/write">>
               [] method = "PATCH" ->
                    IF kv THEN <<basePattern \o "/update/action", basePattern \o "/write">>
                    ELSE <<basePattern \o "/write">>
               [] method = "DELETE" -> <<basePattern \o "/delete">>
               [] OTHER -> <<>>

\* the path components, `p` being the index of the "providers" segment
PrecisePatternsAt(method, parts, p) ==
    LET n == Len(parts)
        hasSub == p # 0 /\ p + 2 <= n /\ p + 4 <= n /\ ~HasPrefix(parts[p + 4], "{")
    IN  PrecisePatterns(method,
            IF p # 0 THEN parts[p + 1] ELSE "",
            IF p # 0 /\ p + 2 <= n THEN parts[p + 2] ELSE "",
            IF hasSub THEN parts[p + 4] ELSE "",
            IF hasSub THEN (IF p + 6 <= n THEN parts[p + 6] ELSE "")
            ELSE IF p # 0 /\ p + 2 <= n /\ p + 4 <= n THEN parts[p + 4]
            ELSE "")

PrecisePatternsOf(method, parts) == PrecisePatternsAt(method, parts, ProvidersIndex(parts))

generatePrecisePatterns(method, path) == PrecisePatternsOf(method, Split(path, "/"))

isOperationMatch(operationName, targetPatterns, method) ==
    LET opLower == ToLower(operationName)
    IN  \/ \E i \in 1..Len(targetPatterns) : ToLower(targetPatterns[i]) = opLower
        \/ \E i \in 1..Len(targetPatterns) : Contains(opLower, ToLower(targetPatterns[i]))

extractResourceTypeFromPath(path) ==
    LET parts == Split(path, "/")
        hits == {i \in 1..Len(parts) : parts[i] = "providers" /\ i + 2 <= Len(parts)}
    IN  IF hits # {} THEN parts[(CHOOSE i \in hits : \A j \in hits : i <= j) + 2]
        ELSE IF Contains(path, "/resourcegroups/") \/ Contains(path, "/resourceGroups/")
        THEN "resourceGroups"
        ELSE ""

RECURSIVE ActionScan(_, _)
ActionScan(parts, i) ==
    IF i < 1 THEN ""
    ELSE LET part == parts[i]
         IN  IF /\ part # "" /\ ~HasPrefix(part, "{") /\ ~HasSuffix(part, "}")
                /\ part # "providers" /\ ~Contains(part, "Microsoft.")
                /\ i > 1 /\ HasPrefix(parts[i - 1], "{")
             THEN part
             ELSE ActionScan(parts, i - 1)

extractActionFromPath(path) ==
    LET parts == Split(path, "/") IN ActionScan(parts, Len(parts))

generateOperationPatterns(method, resourceType) ==
    CASE method = "PUT" -> <<resourceType \o "/write", "create", "update">>
      [] method = "POST" -> <<resourceType \o "/action", "start", "stop", "restart", "scale">>
      [] method = "DELETE" -> <<resourceType \o "/delete", "delete">>
      [] method = "GET" -> <<resourceType \o "/read", "read", "list">>
      [] OTHER -> <<>>

RECURSIVE FallbackScan(_, _, _, _, _)
FallbackScan(operations, i, targetPatterns, resourceType, permissions) ==
    IF i > Len(operations) THEN permissions
    ELSE LET opLower == ToLower(operations[i].Name)
             hit == /\ \E k \in 1..Len(targetPatterns) :
                          Contains(opLower, ToLower(targetPatterns[k]))
                    /\ Contains(opLower, ToLower(resourceType))
             next == IF hit THEN Append(permissions, operations[i].Name) ELSE permissions
         IN  IF Len(next) > 0 /\ Len(next) < 5 THEN next
             ELSE FallbackScan(operations, i + 1, targetPatterns, resourceType, next)

findTargetedFallbackMatches(mapping, operations) ==
    LET resourceType == extractResourceTypeFromPath(mapping.Path)
        action == extractActionFromPath(mapping.Path)
        targetPatterns ==
            (IF action # ""
             THEN <<resourceType \o "/" \o action \o "/action", action \o "/action">>
             ELSE <<>>)
            \o generateOperationPatterns(mapping.Method, resourceType)
    IN  FallbackScan(operations, 1, targetPatterns, resourceType, <<>>)

RECURSIVE removeDuplicates(_)
removeDuplicates(slice) ==
    IF slice = <<>> THEN <<>>
    ELSE LET front == removeDuplicates(SubSeq(slice, 1, Len(slice) - 1))
             last == slice[Len(slice)]
         IN  IF last \in Range(front) THEN front ELSE Append(front, last)

extractResourcePathFromURL(path) ==
    LET parts == Split(path, "/")
        p == ProvidersIndex(parts)
        after == IF p = 0 THEN <<>> ELSE SubSeq(parts, p + 1, Len(parts))
        keep(part) == part # "" /\ ~HasPrefix(part, "{")
        resourcePath == SelectSeq(after, keep)
    IN  IF Len(resourcePath) > 1 THEN Join(Tail(resourcePath), "/") ELSE ""

isKnownDataPlaneService(path) ==
    LET pathLower == ToLower(path)
    IN  \E pattern \in {"/vaults/secrets", "/vaults/keys", "/vaults/certificates",
                        "/storageAccounts/blobServices", "/storageAccounts/fileServices",
                        "/storageAccounts/queueServices", "/storageAccounts/tableServices",
                        "/accounts"} :
            Contains(pathLower, pattern)

\* the result hasDataPlaneOperations computes from a successful provider query
CountsAsDataPlane(path, operations) ==
    LET resourcePath == extractResourcePathFromURL(path)
        related(op) == \/ resourcePath = ""
                       \/ Contains(ToLower(op.Name), ToLower(resourcePath))
        isData(op) == related(op) /\ op.IsDataAction
        isMgmt(op) == related(op) /\ ~op.IsDataAction
        dataActionCount == Len(SelectSeq(operations, isData))
        managementActionCount == Len(SelectSeq(operations, isMgmt))
    IN  dataActionCount > managementActionCount /\ dataActionCount > 0

dataPlaneCacheKey(path) ==
    extractProviderFromPath(path) \o "/" \o extractResourcePathFromURL(path)

\* the names of the matching operations that are (`data`) or are not data actions
MatchedNames(operations, targetPatterns, method, data) ==
    LET test(op) == isOperationMatch(op.Name, targetPatterns, method)
                    /\ op.IsDataAction = data
    IN  Names(SelectSeq(operations, test))

MatchedDataActions(mapping, operations) ==
    MatchedNames(operations, generatePrecisePatterns(mapping.Method, mapping.Path),
                 mapping.Method, TRUE)

MatchedManagement(mapping, operations) ==
    MatchedNames(operations, generatePrecisePatterns(mapping.Method, mapping.Path),
                 mapping.Method, FALSE)

\* the choice findMatchingOperations makes between the two lists
PreferredMatches(path, dataPlane, dataActionPermissions, managementPermissions) ==
    IF Len(dataActionPermissions) > 0 /\ dataPlane THEN dataActionPermissions
    ELSE IF Len(dataActionPermissions) > 0 /\ Len(managementPermissions) > 0
    THEN (IF Contains(path, "Microsoft.KeyVault")
          THEN dataActionPermissions ELSE managementPermissions)
    ELSE IF Len(managementPermissions) > 0 THEN managementPermissions
    ELSE dataActionPermissions \o managementPermissions

OrFallbackMatches(mapping, operations, permissions) ==
    removeDuplicates(IF Len(permissions) = 0
                     THEN findTargetedFallbackMatches(mapping, operations)
                     ELSE permissions)

\* `dataPlane` is what isDataPlaneService(mapping.Path) returns; it is only
\* evaluated when a data action matched
findMatchingOperations(mapping, operations, dataPlane) ==
    OrFallbackMatches(mapping, operations,
        PreferredMatches(mapping.Path, dataPlane,
                         MatchedDataActions(mapping, operations),
                         MatchedManagement(mapping, operations)))

(***************************************************************************)
(* cmd/cli.go: Operation Matcher                                           *)
(***************************************************************************)
\* operationMap of CLI.matchesOperation
MatchOperationMap ==
    [create |-> <<"write", "create">>,
     update |-> <<"write", "update">>,
     set |-> <<"write", "set", "setsecret", "setkey", "setcertificate">>,
     delete |-> <<"delete", "remove", "deletesecret", "deletekey", "deletecertificate">>,
     remove |-> <<"delete", "remove">>,
     list |-> <<"read", "list", "getsecret", "getkey", "getcertificate">>,
     show |-> <<"read", "get", "getsecret", "getkey", "getcertificate">>,
     get |-> <<"read", "get", "getsecret", "getkey", "getcertificate">>,
     start |-> <<"start">>,
     stop |-> <<"poweroff", "stop">>,
     restart |-> <<"restart">>,
     upload |-> <<"write", "put">>,
     download |-> <<"read", "get">>]

\* a verb match that compares the names as they are written
matchesOperation_CaseSensitive(cmdOperation, apiOperation) ==
    LET matches == IF cmdOperation \in DOMAIN MatchOperationMap
                   THEN MatchOperationMap[cmdOperation] ELSE <<>>
        actionName == TrimSuffix(apiOperation, "/action")
    IN  \/ Contains(apiOperation, cmdOperation)
        \/ \E i \in 1..Len(matches) : Contains(apiOperation, matches[i])
        \/ /\ HasSuffix(apiOperation, "/action")
           /\ \/ Contains(actionName, cmdOperation)
              \/ \E i \in 1..Len(matches) : Contains(actionName, matches[i])

matchesOperation(cmdOperation, apiOperation) ==
    LET cmdOp == ToLower(cmdOperation)
        apiOp == ToLower(apiOperation)
        matches == IF cmdOp \in DOMAIN MatchOperationMap THEN MatchOperationMap[cmdOp] ELSE <<>>
        actionName == TrimSuffix(apiOp, "/action")
    IN  \/ Contains(apiOp, cmdOp)
        \/ \E i \in 1..Len(matches) : Contains(apiOp, matches[i])
        \/ /\ HasSuffix(apiOp, "/action")
           /\ \/ Contains(actionName, cmdOp)
              \/ \E i \in 1..Len(matches) : Contains(actionName, matches[i])

\* a classification that takes every command for a control-plane one
isDataPlaneOperation_Never(c) == FALSE

isDataPlaneOperation(c) == Len(Fields(ToLower(c.Service))) >= 2

\* serviceOperationToResourceTypes of CLI.matchesResourceType
CrudTypes(t) == [create |-> <<t>>, delete |-> <<t>>, list |-> <<t>>, show |-> <<t>>]

serviceOperationToResourceTypes ==
    [group |-> CrudTypes("subscriptions/resourcegroups"),
     vm |-> [create |-> <<"virtualmachines">>, delete |-> <<"virtualmachines">>,
             start |-> <<"virtualmachines">>, stop |-> <<"virtualmachines">>,
             restart |-> <<"virtualmachines">>, list |-> <<"virtualmachines">>,
             show |-> <<"virtualmachines", "virtualmachines/instanceview">>],
     storage |-> CrudTypes("storageaccounts"),
     webapp |-> [create |-> <<"sites">>, delete |-> <<"sites">>, list |-> <<"sites">>,
                 show |-> <<"sites">>, start |-> <<"sites">>, stop |-> <<"sites">>,
                 restart |-> <<"sites">>],
     keyvault |-> CrudTypes("vaults"),
     aks |-> [create |-> <<"managedclusters">>, delete |-> <<"managedclusters">>,
              list |-> <<"managedclusters">>, show |-> <<"managedclusters">>,
              start |-> <<"managedclusters">>, stop |-> <<"managedclusters">>]]

serviceAliases ==
    [keyvault |-> <<"vault", "vaults">>,
     storage |-> <<"storageaccount", "storageaccounts">>,
     cosmosdb |-> <<"documentdb", "cosmos">>]

\* the backwards scan for the sub-resource word: the index (from 1) it ends on,
\* 0 when no segment contains the word
RECURSIVE SubResourcePosition(_, _, _, _)
SubResourcePosition(parts, i, subResource, found) ==
    IF i < 1 THEN found
    ELSE IF Contains(parts[i], subResource)
    THEN (IF parts[i] = subResource \/ parts[i] = subResource \o "s" THEN i
          ELSE SubResourcePosition(parts, i - 1, subResource, i))
    ELSE SubResourcePosition(parts, i - 1, subResource, found)

\* a position test that takes the sub-resource word anywhere in the path
SubResourceAtEnd_Anywhere(resourceTypeParts, subResourcePosition) ==
    subResourcePosition # 0

\* the position test: the sub-resource word ends the resource type
SubResourceAtEnd(resourceTypeParts, subResourcePosition) ==
    /\ subResourcePosition # 0
    /\ ~(subResourcePosition - 1 < Len(resourceTypeParts) - 2)

SubResourceLast(resourceTypeParts, subResource) ==
    SubResourceAtEnd(resourceTypeParts,
        SubResourcePosition(resourceTypeParts, Len(resourceTypeParts), subResource, 0))

DataPlaneMatch(serviceParts, operationLower, resourceType, resourceTypeLower) ==
    LET baseService == serviceParts[1]
        subResource == serviceParts[2]
        serviceMatched ==
            IF baseService \in DOMAIN serviceAliases
            THEN \E i \in 1..Len(serviceAliases[baseService]) :
                     Contains(resourceTypeLower, serviceAliases[baseService][i])
            ELSE Contains(resourceTypeLower, baseService)
        monitoringType == \/ Contains(resourceTypeLower, "insights")
                          \/ Contains(resourceTypeLower, "monitoring")
        monitoringOp == \/ Contains(operationLower, "monitor")
                        \/ Contains(operationLower, "metric")
                        \/ Contains(operationLower, "diagnostic")
    IN  /\ Len(serviceParts) >= 2
        /\ serviceMatched
        /\ Contains(resourceTypeLower, subResource)
        /\ Count(resourceType, "/") >= 1
        /\ SubResourceLast(Split(resourceTypeLower, "/"), subResource)
        /\ monitoringType => monitoringOp

matchesDataPlaneResourceType(service, operation, resourceType) ==
    DataPlaneMatch(Fields(service), ToLower(operation), resourceType, ToLower(resourceType))

\* a structural test that compares the names with their slashes
ControlPlaneMatch_Exact(service, operation, resType) ==
    /\ service \in DOMAIN serviceOperationToResourceTypes
    /\ operation \in DOMAIN serviceOperationToResourceTypes[service]
    /\ \E i \in 1..Len(serviceOperationToResourceTypes[service][operation]) :
           resType = serviceOperationToResourceTypes[service][operation][i]

\* the structural test of a control-plane command
ControlPlaneMatch(service, operation, resType) ==
    /\ service \in DOMAIN serviceOperationToResourceTypes
    /\ operation \in DOMAIN serviceOperationToResourceTypes[service]
    /\ \E i \in 1..Len(serviceOperationToResourceTypes[service][operation]) :
           ReplaceAll(resType, "/", "")
               = ReplaceAll(serviceOperationToResourceTypes[service][operation][i], "/", "")

matchesResourceType(c, resourceType) ==
    IF isDataPlaneOperation(c)
    THEN matchesDataPlaneResourceType(ToLower(c.Service), ToLower(c.Operation),
                                      ToLower(resourceType))
    ELSE ControlPlaneMatch(ToLower(c.Service), ToLower(c.Operation), ToLower(resourceType))

\* operationMap of CLI.suggestOperationsFromLiveData
SuggestOperationMap ==
    [create |-> <<"write">>, update |-> <<"write">>, set |-> <<"write">>,
     delete |-> <<"delete">>, remove |-> <<"delete">>, list |-> <<"read">>,
     show |-> <<"read">>, get |-> <<"read">>, start |-> <<"start">>,
     stop |-> <<"poweroff", "stop">>, restart |-> <<"restart">>]

\* the operations of the resource type the suggestion pass settles on: the
\* first one that matches, else the first one
BestOperations(types, matching) ==
    IF matching # {} THEN types[CHOOSE i \in matching : \A j \in matching : i <= j].Operations
    ELSE IF Len(types) > 0 THEN types[1].Operations
    ELSE <<>>

\* one copy of the name per pattern it contains
PatternHits(name, patterns) ==
    LET hit(pattern) == Contains(ToLower(name), pattern)
    IN  [k \in 1..Len(SelectSeq(patterns, hit)) |-> name]

FirstRead(reads) == IF Len(reads) > 0 THEN <<reads[1].Name>> ELSE <<>>

OrFirstRead(suggestions, ops) ==
    LET isRead(o) == Contains(ToLower(o.Name), "read")
    IN  IF Len(suggestions) > 0 THEN suggestions ELSE FirstRead(SelectSeq(ops, isRead))

SuggestFrom(ops, patterns) ==
    OrFirstRead(Flatten([i \in 1..Len(ops) |-> PatternHits(ops[i].Name, patterns)]), ops)

\* the patterns of a suggestion pass that only ever falls back on "read"
SuggestPatterns_None(op) == <<>>

SuggestPatterns(op) ==
    IF op \in DOMAIN SuggestOperationMap THEN SuggestOperationMap[op] ELSE <<>>

suggestOperationsFromLiveData(c, providerOps) ==
    SuggestFrom(
        BestOperations(providerOps.ResourceTypes,
                       {i \in 1..Len(providerOps.ResourceTypes) :
                            matchesResourceType(c, providerOps.ResourceTypes[i].Name)}),
        SuggestPatterns(ToLower(c.Operation)))

\* the sequences a range over a Go map with key set S can produce
Orders(S) == {f \in [1..Cardinality(S) -> S] : Range(f) = S}

\* a permissionsSet that takes the operations of every resource type
permissionsSet_AllTypes(c, providerOps) ==
    LET types == providerOps.ResourceTypes
        fromProvider == {o.Name : o \in {p \in Range(providerOps.Operations) :
                                             matchesOperation(c.Operation, p.Name)}}
        fromTypes == UNION {{o.Name : o \in {p \in Range(types[i].Operations) :
                                                 matchesOperation(c.Operation, p.Name)}} :
                            i \in 1..Len(types)}
    IN  fromProvider \cup fromTypes

\* permissionsSet of CLI.findOperationsForCommand
permissionsSet(c, providerOps) ==
    LET types == providerOps.ResourceTypes
        fromProvider == {o.Name : o \in {p \in Range(providerOps.Operations) :
                                             matchesOperation(c.Operation, p.Name)}}
        fromTypes == UNION {{o.Name : o \in {p \in Range(types[i].Operations) :
                                                 matchesOperation(c.Operation, p.Name)}} :
                            i \in {j \in 1..Len(types) : matchesResourceType(c, types[j].Name)}}
    IN  fromProvider \cup fromTypes

\* The outcomes one call of CLI.findOperationsForCommand can have: `operations`
\* is the fetched provider map, `provider` the value mapServiceToProvider returned.
MatchedOrSuggested(c, providerOps, matched) ==
    IF matched # {}
    THEN {[err |-> FALSE, permissions |-> p] : p \in Orders(matched)}
    ELSE {[err |-> FALSE, permissions |-> suggestOperationsFromLiveData(c, providerOps)]}

findOperationsForCommand(c, operations, provider) ==
    IF provider = "" \/ provider \notin DOMAIN operations
    THEN {[err |-> TRUE, permissions |-> <<>>]}
    ELSE MatchedOrSuggested(c, operations[provider], permissionsSet(c, operations[provider]))

(***************************************************************************)
(* sort.Strings: byte-wise lexicographic order                             *)
(***************************************************************************)
AsciiOrder == " -./0123456789ABCDEFGHIJKLMNOPQRSTUVWXYZ_abcdefghijklmnopqrstuvwxyz{}"

RECURSIVE StringLess(_, _)
StringLess(a, b) ==
    IF b = "" THEN FALSE
    ELSE IF a = "" THEN TRUE
    ELSE LET ca == IndexFrom(AsciiOrder, SubSeq(a, 1, 1), 1)
             cb == IndexFrom(AsciiOrder, SubSeq(b, 1, 1), 1)
         IN  IF ca # cb THEN ca < cb
             ELSE StringLess(SubSeq(a, 2, Len(a)), SubSeq(b, 2, Len(b)))

RECURSIVE SortStrings(_)
SortStrings(seq) ==
    IF Len(seq) <= 1 THEN seq
    ELSE LET rest == SortStrings(Tail(seq))
             h == Head(seq)
             smaller(e) == StringLess(e, h)
             notSmaller(e) == ~StringLess(e, h)
         IN  SelectSeq(rest, smaller) \o <<h>> \o SelectSeq(rest, notSmaller)

(***************************************************************************)
(* Cache (permissions.json and the in-memory mapping)                      *)
(***************************************************************************)
\* loadDefaultPermissions
DefaultCommands ==
    ("group create" :> <<"Microsoft.Resources/subscriptions/resourceGroups/write">>) @@
    ("group delete" :> <<"Microsoft.Resources/subscriptions/resourceGroups/delete">>) @@
    ("vm start" :> <<"Microsoft.Compute/virtualMachines/start/action">>) @@
    ("vm stop" :> <<"Microsoft.Compute/virtualMachines/powerOff/action">>) @@
    ("storage account create" :> <<"Microsoft.Storage/storageAccounts/write">>)

EmptyCommands == <<>>

\* A file is [state, Commands]: "absent", "corrupt" (not JSON) or "ok".
AbsentFile == [state |-> "absent", Commands |-> EmptyCommands]
CorruptFile == [state |-> "corrupt", Commands |-> EmptyCommands]
FileOf(commands) == [state |-> "ok", Commands |-> commands]

\* LoadPermissions / loadPermissions: the mapping held after loading `f`
LoadPermissions(f) == IF f.state = "ok" THEN f.Commands ELSE DefaultCommands

\* a CachePermission that stores an empty list under the command
CachePermission_Empty(m, command, perms) == (command :> <<>>) @@ m

\* a CachePermission that leaves the mapping as it is
CachePermission_Skip(m, command, perms) == m

\* CachePermission / cachePermissionMapping: the in-memory mapping afterwards
CachePermission(m, command, perms) == (command :> perms) @@ m

\* SavePermissions / savePermissions: the files the write can leave behind
\* (os.WriteFile may fail; its error is dropped by the caller)
SavePermissions(f, m) == {FileOf(m), f}

\* hasDefinitiveMapping
definitiveCommands ==
    {"group create", "group delete", "vm create", "vm start", "vm stop",
     "storage account create", "keyvault create", "keyvault secret set",
     "webapp create", "sql server create", "aks create"}

getPermissionConfidence(command, m) ==
    IF command \in definitiveCommands THEN "high"
    ELSE IF command \in DOMAIN m THEN "medium"
    ELSE "low"

(***************************************************************************)
(* Cache tiers: Manager.GetPermissions / Manager.findPartialMatches and the *)
(* same code in main.go getRequiredPermissions / findPartialMatches.        *)
(* A tier result is [permissions, confidence, source, tiers].               *)
(***************************************************************************)
\* a tier result whose tiers have each been attempted a second time
TierResult_Twice(perms, conf, source, tiers) ==
    [permissions |-> perms, confidence |-> conf, source |-> source, tiers |-> tiers \o tiers]

TierResult(perms, conf, source, tiers) ==
    [permissions |-> perms, confidence |-> conf, source |-> source, tiers |-> tiers]

\* a partial match that appends the lists of all the keys that satisfy the test
PartialPicks_Merge(c, m) ==
    LET keys == {k \in DOMAIN m : HasPrefix(k, c.Service) /\ Contains(k, c.Operation)}
    IN  IF keys = {} THEN {<<>>}
        ELSE {Flatten([i \in DOMAIN o |-> m[o[i]]]) : o \in Orders(keys)}

\* the lists the range-with-break over the mapping can pick
PartialPicks(c, m) ==
    LET keys == {k \in DOMAIN m : HasPrefix(k, c.Service) /\ Contains(k, c.Operation)}
    IN  IF keys = {} THEN {<<>>} ELSE {m[k] : k \in keys}

\* findPartialMatches: partial match, then suggestPermissionsByOperation
findPartialMatches(c, m) ==
    UNION {IF Len(picked) > 0
           THEN {TierResult(picked, "low", "partial", <<"partial">>)}
           ELSE {TierResult(suggestPermissionsByOperation(c, provider), "low",
                            IF suggestPermissionsByOperation(c, provider) = <<>>
                            THEN "none" ELSE "heuristic",
                            <<"partial", "heuristic">>) :
                 provider \in getResourceProviderForService(c.Service)} :
           picked \in PartialPicks(c, m)}

\* Manager.GetPermissions
GetPermissions(c, m) ==
    IF c.FullCmd \in DOMAIN m
    THEN {TierResult(m[c.FullCmd], "medium", "exact", <<"exact">>)}
    ELSE {[r EXCEPT !.tiers = <<"exact">> \o @] : r \in findPartialMatches(c, m)}

(***************************************************************************)
(* Resolve outcomes. A resolve outcome is a tier result extended with the   *)
(* state it leaves: [mappings, dpCache, file] and the number of credential  *)
(* and provider-catalog fetches it made.                                    *)
(***************************************************************************)
Outcome(r, m, dp, f, tokens, fetches) ==
    [permissions |-> r.permissions, confidence |-> r.confidence, source |-> r.source,
     tiers |-> r.tiers, mappings |-> m, dpCache |-> dp, file |-> f,
     tokenFetches |-> tokens, catalogFetches |-> fetches]

\* isDataPlaneService / hasDataPlaneOperations, called once a data action has
\* matched: the answers it can give, the cache it leaves and the queries it made.
\* The provider query either fails or returns `operations` again.
isDataPlaneService(path, operations, dp) ==
    LET cacheKey == dataPlaneCacheKey(path)
    IN  IF cacheKey \in DOMAIN dp
        THEN {[answer |-> dp[cacheKey], dpCache |-> dp, fetches |-> 0]}
        ELSE {[answer |-> a, dpCache |-> (cacheKey :> a) @@ dp, fetches |-> 1] :
              a \in {isKnownDataPlaneService(path), CountsAsDataPlane(path, operations)}}

\* queryLiveAzureAPIPermissions: [permissions, dpCache, fetches] per way the
\* provider queries can go. `cat` maps provider namespaces to their operations.
queryLiveAzureAPIPermissions(mapping, cat, dp) ==
    LET provider == extractProviderFromPath(mapping.Path)
        failed(n) == [permissions |-> <<>>, dpCache |-> dp, fetches |-> n]
    IN  IF provider = "" THEN {failed(0)}
        ELSE IF provider \notin DOMAIN cat THEN {failed(1)}
        ELSE LET operations == queryProviderOperations(cat[provider])
                 answers == IF Len(MatchedDataActions(mapping, operations)) > 0
                            THEN isDataPlaneService(mapping.Path, operations, dp)
                            ELSE {[answer |-> FALSE, dpCache |-> dp, fetches |-> 0]}
             IN  {failed(1)} \cup
                 {[permissions |-> findMatchingOperations(mapping, operations, a.answer),
                   dpCache |-> a.dpCache, fetches |-> 1 + a.fetches] : a \in answers}

\* getDefinitivePermissions
getDefinitivePermissions(c, m, dp, f, cat) ==
    UNION {LET apiMapping == mapCommandToRestAPI(c, provider)
           IN  IF ~apiMapping.ok
               THEN {Outcome(TierResult(<<>>, "none", "none", <<"live">>), m, dp, f, 0, 0)}
               ELSE UNION {IF Len(q.permissions) > 0
                           THEN {Outcome(TierResult(q.permissions, "none", "live", <<"live">>),
                                         CachePermission(m, c.FullCmd, q.permissions),
                                         q.dpCache, saved, 0, q.fetches) :
                                 saved \in SavePermissions(f,
                                              CachePermission(m, c.FullCmd, q.permissions))}
                           ELSE {Outcome(TierResult(apiMapping.Permissions, "none",
                                                    "premapped", <<"live">>),
                                         m, q.dpCache, f, 0, q.fetches)} :
                           q \in queryLiveAzureAPIPermissions(apiMapping, cat, dp)} :
           provider \in getResourceProviderForService(c.Service)}

\* getRequiredPermissions (main.go): the function returns no confidence
getRequiredPermissions(c, m, dp, f, cat) ==
    UNION {IF Len(d.permissions) > 0 THEN {d}
           ELSE IF c.FullCmd \in DOMAIN d.mappings
           THEN {[d EXCEPT !.permissions = d.mappings[c.FullCmd], !.source = "exact",
                           !.tiers = <<"live", "exact">>]}
           ELSE {[d EXCEPT !.permissions = r.permissions, !.source = r.source,
                           !.tiers = <<"live", "exact">> \o r.tiers] :
                 r \in findPartialMatches(c, d.mappings)} :
           d \in getDefinitivePermissions(c, m, dp, f, cat)}

\* CLI.getLivePermissions: [err, permissions, tokens, fetches]
TokenOutcomes == {"error", "empty", "token"}
FetchOutcomes == {"error", "ok"}

getLivePermissions(c, cat) ==
    UNION {IF token # "token"
           THEN {[err |-> TRUE, permissions |-> <<>>, tokens |-> 1, fetches |-> 0]}
           ELSE UNION {IF fetch # "ok"
                       THEN {[err |-> TRUE, permissions |-> <<>>, tokens |-> 1, fetches |-> 1]}
                       ELSE {[err |-> o.err, permissions |-> o.permissions,
                              tokens |-> 1, fetches |-> 1] :
                             o \in UNION {findOperationsForCommand(c, cat, provider) :
                                          provider \in mapServiceToProvider(c.Service)}} :
                       fetch \in FetchOutcomes} :
           token \in TokenOutcomes}

\* CLI.getPermissions
getPermissions(c, m, dp, f, cat) ==
    UNION {IF ~l.err /\ Len(l.permissions) > 0
           THEN {Outcome(TierResult(l.permissions, "high", "live", <<"live">>),
                         CachePermission(m, c.FullCmd, l.permissions), dp, saved,
                         l.tokens, l.fetches) :
                 saved \in SavePermissions(f, CachePermission(m, c.FullCmd, l.permissions))}
           ELSE {Outcome(TierResult(<<>>, "low", "none", <<"live">>), m, dp, f,
                         l.tokens, l.fetches)} :
           l \in getLivePermissions(c, cat)}

\* Manager.GetPermissions as a resolve of its own
ManagerGetPermissions(c, m, dp, f) ==
    {Outcome(r, m, dp, f, 0, 0) : r \in GetPermissions(c, m)}

(***************************************************************************)
(* Inputs of the model                                                     *)
(***************************************************************************)
Op(name) == [Name |-> name, IsDataAction |-> FALSE]
DataOp(name) == [Name |-> name, IsDataAction |-> TRUE]
ResourceType(name, ops) == [Name |-> name, Operations |-> ops]
Provider(ops, types) == [Operations |-> ops, ResourceTypes |-> types]

\* what the provider-operations endpoint answers
StandardCatalog ==
    ("Microsoft.Compute" :> Provider(
        <<Op("Microsoft.Compute/register/action")>>,
        <<ResourceType("virtualMachines",
            <<Op("Microsoft.Compute/virtualMachines/read"),
              Op("Microsoft.Compute/virtualMachines/start/action"),
              Op("Microsoft.Compute/virtualMachines/powerOff/action"),
              Op("Microsoft.Compute/virtualMachines/restart/action")>>)>>)) @@
    ("Microsoft.Resources" :> Provider(
        <<>>,
        <<ResourceType("subscriptions/resourceGroups",
            <<Op("Microsoft.Resources/subscriptions/resourceGroups/read"),
              Op("Microsoft.Resources/subscriptions/resourceGroups/write")>>)>>)) @@
    ("Microsoft.Sql" :> Provider(
        <<>>,
        <<ResourceType("servers",
            <<Op("Microsoft.Sql/servers/read"),
              Op("Microsoft.Sql/servers/write")>>)>>)) @@
    ("Microsoft.KeyVault" :> Provider(
        <<>>,
        <<ResourceType("vaults",
            <<Op("Microsoft.KeyVault/vaults/read")>>),
          ResourceType("vaults/secrets",
            <<Op("Microsoft.KeyVault/vaults/secrets/write"),
              DataOp("Microsoft.KeyVault/vaults/secrets/setSecret/action")>>)>>)) @@
    ("Microsoft.Storage" :> Provider(
        <<Op("Microsoft.Storage/register/action")>>,
        <<ResourceType("storageAccounts",
            <<Op("Microsoft.Storage/storageAccounts/read"),
              Op("Microsoft.Storage/storageAccounts/write")>>),
          ResourceType("storageAccounts/blobServices/containers/blobs",
            <<DataOp("Microsoft.Storage/storageAccounts/blobServices/containers/blobs/read"),
              DataOp("Microsoft.Storage/storageAccounts/blobServices/containers/blobs/write")>>)>>))

EmptyCatalog == <<>>

\* a catalog whose compute provider lists no virtual machine resource type and
\* lists one operation twice
RepeatingCatalog ==
    "Microsoft.Compute" :> Provider(
        <<>>,
        <<ResourceType("disks",
            <<Op("Microsoft.Compute/disks/read"),
              Op("Microsoft.Compute/disks/read"),
              Op("Microsoft.Compute/disks/write")>>)>>)

Catalogs == [standard |-> StandardCatalog, empty |-> EmptyCatalog,
             repeating |-> RepeatingCatalog]

\* a permissions.json written by hand or by another version of the tool
CustomCommands ==
    ("vm scale" :> <<>>) @@
    ("vm list" :> <<"Microsoft.Compute/virtualMachines/read",
                    "Microsoft.Compute/virtualMachines/instanceView/read">>) @@
    ("vm start" :> <<"Microsoft.Compute/virtualMachines/start/action">>) @@
    ("storage blob upload-batch" :>
        <<"Microsoft.Storage/storageAccounts/blobServices/containers/blobs/write">>) @@
    ("sql vm group list" :>
        <<"Microsoft.SqlVirtualMachine/sqlVirtualMachineGroups/read">>) @@
    ("sql vm group ag-listener list" :>
        <<"Microsoft.SqlVirtualMachine/sqlVirtualMachineGroups/availabilityGroupListeners/read">>)

Files == {AbsentFile, CorruptFile, FileOf(EmptyCommands), FileOf(CustomCommands)}

\* command lines given as arguments, or alone on standard input
Lines ==
    {"az vm start --name x", "az vm list", "az vm scale", "az vm stop",
     "az sql vm list", "az group create --name rg", "az keyvault secret set --name s",
     "az storage blob upload --name b", "az foo bar", "garbage"}

\* lines of a standard input of several lines
PipedLines == {"az vm start --name x", "garbage"}

MaxLines == 2
MaxRuns == 2

SeqsUpTo(S, n) == UNION {[1..k -> S] : k \in 0..n}

Inputs ==
    {<<l>> : l \in Lines} \cup {in \in SeqsUpTo(PipedLines, MaxLines) : Len(in) >= 2}

\* a standard input without a command, or with blank lines around one
BlankInputs == {<<>>, <<"  ">>, <<"", "az vm list", " ">>}

\* what the shell history gives: "" when no command can be taken from it
Histories == {"", "az vm list"}

(***************************************************************************)
(* State                                                                   *)
(***************************************************************************)
VARIABLES
    impl,          \* "legacy" (main.go), "cli" (cmd/cli.go), "manager" (Manager alone)
    mode,          \* "args", "piped" or "terminal" (no arguments, nothing piped)
    stdin,         \* the input lines (for "args": the arguments joined, as one line)
    history,       \* the last az command of the shell history, "" if there is none
    inputWords,    \* parser runs: the words the input line is made of
    layout,        \* parser runs: the white space around and between the words
    catalogId,     \* which of Catalogs the management API serves
    file,          \* permissions.json
    run,           \* number of processes started so far
    pc,            \* "start", "resolve", "display", "exited"
    queue,         \* input lines still to process
    cmd,           \* the command parsed last
    mappings,      \* permissionMappings.Commands / Manager.mappings.Commands
    dataPlaneServiceCache,
    permissions,   \* the list the last resolve returned (sorted once displayed)
    confidence,    \* the confidence the last resolve returned ("none": it returns none)
    source,        \* where that list came from
    tiers,         \* the tiers the last resolve attempted, in order
    fetches,       \* <<credential fetches, catalog fetches>> of the last resolve
    shown,         \* the confidence annotation displayed last
    outcomes,      \* per processed command: did it succeed
    exitCode,      \* -1 while running
    prev           \* the resolve before the last one: [FullCmd, permissions, source]

vars == <<impl, mode, stdin, history, inputWords, layout, catalogId, file, run, pc, queue, cmd, mappings,
          dataPlaneServiceCache, permissions, confidence, source, tiers, fetches,
          shown, outcomes, exitCode, prev>>

config == <<impl, mode, stdin, history, inputWords, layout, catalogId>>
resolved == <<cmd, permissions, confidence, source, tiers, fetches, prev>>

NoResolve == [FullCmd |-> "", permissions |-> <<>>, source |-> "none"]

Init ==
    /\ impl \in {"legacy", "cli", "manager"}
    /\ mode \in {"args", "piped", "terminal"}
    /\ stdin \in Inputs \cup BlankInputs
    /\ history \in Histories
    /\ inputWords = <<>>
    /\ layout = "plain"
    /\ mode = "args" => impl = "legacy" /\ stdin \in {<<l>> : l \in Lines}
    /\ mode = "terminal" => stdin = <<>> /\ impl # "manager"
    /\ mode # "terminal" => history = ""
    /\ impl = "manager" => stdin \in {<<l>> : l \in Lines}
    /\ catalogId \in DOMAIN Catalogs
    /\ impl = "manager" => catalogId = "empty"
    /\ file \in Files
    /\ run = 1
    /\ pc = "start"
    /\ queue = <<>>
    /\ cmd = ParseFailure
    /\ mappings = EmptyCommands
    /\ dataPlaneServiceCache = <<>>
    /\ permissions = <<>>
    /\ confidence = "none"
    /\ source = "none"
    /\ tiers = <<>>
    /\ fetches = <<0, 0>>
    /\ shown = "none"
    /\ outcomes = <<>>
    /\ exitCode = -1
    /\ prev = NoResolve

(***************************************************************************)
(* Input handling                                                          *)
(***************************************************************************)
NonBlank(lines) ==
    LET trimmed == [i \in 1..Len(lines) |-> TrimSpace(lines[i])]
        keep(l) == l # ""
    IN  SelectSeq(trimmed, keep)

RECURSIVE ExtractScan(_, _, _, _)
ExtractScan(words, i, foundAz, azCommand) ==
    IF i > Len(words) THEN [foundAz |-> foundAz, azCommand |-> azCommand]
    ELSE IF words[i] = "az" THEN ExtractScan(words, i + 1, TRUE, <<"az">>)
    ELSE IF foundAz
    THEN LET grown == Append(azCommand, words[i])
         IN  IF HasPrefix(words[i], "--") /\ Len(grown) > 3
             THEN [foundAz |-> TRUE, azCommand |-> grown]
             ELSE ExtractScan(words, i + 1, TRUE, grown)
    ELSE ExtractScan(words, i + 1, foundAz, azCommand)

\* CLI.extractAzureCommand
extractAzureCommand(input) ==
    LET r == ExtractScan(Fields(input), 1, FALSE, <<>>)
    IN  IF r.foundAz /\ Len(r.azCommand) >= 3 THEN Join(r.azCommand, " ") ELSE ""

\* CLI.readPipedInput, for lines that are not all blank
readPipedInput(lines) ==
    LET input == Join(NonBlank(lines), " ")
        azCmd == extractAzureCommand(input)
    IN  IF azCmd # "" THEN azCmd ELSE input

Finish(code) ==
    /\ pc' = "exited"
    /\ exitCode' = code

\* main (main.go) up to the loop over the input; CLI.Run up to the parse
Start ==
    /\ pc = "start"
    /\ mappings' = IF impl = "legacy" /\ mode = "args" THEN mappings
                   ELSE LoadPermissions(file)
    /\ queue' = IF mode = "terminal"
                THEN (IF impl = "cli" /\ history # "" THEN <<history>> ELSE <<>>)
                ELSE IF impl = "cli" /\ NonBlank(stdin) # <<>>
                THEN <<readPipedInput(stdin)>>
                ELSE IF mode = "args" THEN stdin ELSE NonBlank(stdin)
    /\ IF queue' = <<>>
       THEN Finish(IF impl = "cli" /\ mode = "terminal" THEN 0 ELSE 1)
       ELSE pc' = "resolve" /\ UNCHANGED exitCode
    /\ UNCHANGED <<config, file, run, dataPlaneServiceCache, resolved, shown, outcomes>>

AfterCommand(ok) ==
    /\ outcomes' = Append(outcomes, ok)
    /\ queue' = Tail(queue)
    /\ IF impl = "legacy" /\ Tail(queue) # <<>>
       THEN pc' = "resolve" /\ UNCHANGED exitCode
       ELSE Finish(IF \E i \in 1..Len(outcomes') : ~outcomes'[i] THEN 1 ELSE 0)

\* the parse of the next input line fails: processCommand returns false,
\* CLI.Run returns the error
ParseError ==
    /\ pc = "resolve"
    /\ ~ParseAzureCommand(Head(queue)).ok
    /\ AfterCommand(FALSE)
    /\ UNCHANGED <<config, file, run, mappings, dataPlaneServiceCache, resolved, shown>>

Resolutions(c) ==
    CASE impl = "legacy" ->
            getRequiredPermissions(c, mappings, dataPlaneServiceCache, file, Catalogs[catalogId])
      [] impl = "cli" ->
            getPermissions(c, mappings, dataPlaneServiceCache, file, Catalogs[catalogId])
      [] impl = "manager" ->
            ManagerGetPermissions(c, mappings, dataPlaneServiceCache, file)

\* the next input line is parsed and resolved
Resolve ==
    /\ pc = "resolve"
    /\ LET c == ParseAzureCommand(Head(queue))
       IN  /\ c.ok
           /\ \E o \in Resolutions(c) :
                /\ cmd' = c
                /\ permissions' = o.permissions
                /\ confidence' = o.confidence
                /\ source' = o.source
                /\ tiers' = o.tiers
                /\ fetches' = <<o.tokenFetches, o.catalogFetches>>
                /\ mappings' = o.mappings
                /\ dataPlaneServiceCache' = o.dpCache
                /\ file' = o.file
    /\ prev' = IF cmd.ok
               THEN [FullCmd |-> cmd.FullCmd, permissions |-> permissions, source |-> source]
               ELSE prev
    /\ pc' = "display"
    /\ UNCHANGED <<config, run, queue, shown, outcomes, exitCode>>

\* the rest of processCommand / CLI.Run: report an empty list as a failure,
\* display a non-empty one (sort.Strings sorts the slice in place, and the
\* cached list when it is that slice)
Display ==
    /\ pc = "display"
    /\ IF Len(permissions) = 0
       THEN /\ AfterCommand(FALSE)
            /\ UNCHANGED <<permissions, mappings, shown>>
       ELSE /\ AfterCommand(TRUE)
            /\ permissions' = SortStrings(permissions)
            /\ mappings' = IF source \in {"live", "exact"}
                           THEN [mappings EXCEPT ![cmd.FullCmd] = SortStrings(@)]
                           ELSE mappings
            /\ shown' = IF impl = "legacy"
                        THEN getPermissionConfidence(cmd.FullCmd, mappings)
                        ELSE "none"
    /\ UNCHANGED <<config, file, run, dataPlaneServiceCache, cmd, confidence, source,
                   tiers, fetches, prev>>

\* the tool is run again on the same input, with the file the last run left
Restart ==
    /\ pc = "exited"
    /\ run < MaxRuns
    /\ run' = run + 1
    /\ pc' = "start"
    /\ queue' = <<>>
    /\ mappings' = EmptyCommands
    /\ dataPlaneServiceCache' = <<>>
    /\ outcomes' = <<>>
    /\ exitCode' = -1
    /\ shown' = "none"
    /\ UNCHANGED <<config, file, resolved>>

Next == Start \/ ParseError \/ Resolve \/ Display \/ Restart

Spec == Init /\ [][Next]_vars

(***************************************************************************)
(* The parser on its own: an input line is made of words and white space,  *)
(* and ParseAzureCommand is applied to it.                                 *)
(***************************************************************************)
MaxWords == 4

WordPool == {"az", "vm", "start", "--name", "--g", "x"}

\* the examples of the documentation, and flags that occur twice
ExampleWords ==
    {<<"az", "storage", "account", "create", "--name", "x">>,
     <<"az", "group", "create", "--name", "myRG", "--location", "eastus">>,
     <<"az", "vm", "start", "--name", "x", "--name">>,
     <<"az", "vm", "start", "--name", "--name", "x">>,
     <<"az", "vm", "start", "--name", "x", "--name", "y">>}

ParseWords == SeqsUpTo(WordPool, MaxWords) \cup ExampleWords

\* white space before the first word, between two words, after the last
Layouts ==
    [plain  |-> [lead |-> "",   sep |-> " ",  trail |-> ""],
     padded |-> [lead |-> "  ", sep |-> "  ", trail |-> " "],
     tabbed |-> [lead |-> "\t", sep |-> "\t", trail |-> ""]]

Render(ws, l) == Layouts[l].lead \o Join(ws, Layouts[l].sep) \o Layouts[l].trail

ParseInit ==
    /\ impl = "parser"
    /\ mode = "args"
    /\ inputWords \in ParseWords
    /\ layout \in DOMAIN Layouts
    /\ stdin = <<Render(inputWords, layout)>>
    /\ history = ""
    /\ catalogId = "empty"
    /\ file = AbsentFile
    /\ run = 1
    /\ pc = "start"
    /\ queue = <<>>
    /\ cmd = ParseFailure
    /\ mappings = EmptyCommands
    /\ dataPlaneServiceCache = <<>>
    /\ permissions = <<>>
    /\ confidence = "none"
    /\ source = "none"
    /\ tiers = <<>>
    /\ fetches = <<0, 0>>
    /\ shown = "none"
    /\ outcomes = <<>>
    /\ exitCode = -1
    /\ prev = NoResolve

\* ParseAzureCommand is called on the input line
Parse ==
    /\ pc = "start"
    /\ cmd' = ParseAzureCommand(stdin[1])
    /\ pc' = IF cmd'.ok THEN "parsed" ELSE "failed"
    /\ UNCHANGED <<config, file, run, queue, mappings, dataPlaneServiceCache, permissions,
                   confidence, source, tiers, fetches, shown, outcomes, exitCode, prev>>

ParseNext == Parse

ParseSpec == ParseInit /\ [][ParseNext]_vars

(***************************************************************************)
(* The structural match on its own: a data-plane command and a resource    *)
(* type name made of path segments, to which matchesResourceType is        *)
(* applied.                                                                *)
(***************************************************************************)
MaxSegments == 3

SegmentPool ==
    {"vaults", "secrets", "secretVersions", "storageAccounts", "storageTasks",
     "blobServices", "blobs", "insights"}

\* resource type names of four segments: one the storage provider lists, and
\* one whose last segment only contains the sub-resource word
ExampleTypes ==
    {<<"storageAccounts", "blobServices", "containers", "blobs">>,
     <<"storageAccounts", "blobServices", "containers", "blobSnapshots">>}

DataPlaneLines ==
    {"az keyvault secret set", "az keyvault secret monitor", "az keyvault secret metrics",
     "az storage blob upload", "az storage account create"}

\* control-plane commands: in the table, spelled with capitals, with an
\* operation or a service the table does not list
ControlPlaneLines ==
    {"az vm show", "az VM List", "az group create", "az vm scale", "az sql list"}

ControlSegments ==
    {"virtualMachines", "virtual", "Machines", "instanceView", "subscriptions",
     "resourceGroups"}

MatchInit ==
    /\ impl = "matcher"
    /\ mode = "args"
    /\ \/ /\ stdin \in {<<l>> : l \in DataPlaneLines}
          /\ inputWords \in SeqsUpTo(SegmentPool, MaxSegments) \cup ExampleTypes
       \/ /\ stdin \in {<<l>> : l \in ControlPlaneLines}
          /\ inputWords \in SeqsUpTo(ControlSegments, MaxSegments)
    /\ inputWords # <<>>
    /\ layout = "plain"
    /\ history = ""
    /\ catalogId = "empty"
    /\ file = AbsentFile
    /\ run = 1
    /\ pc = "start"
    /\ queue = <<>>
    /\ cmd = ParseAzureCommand(stdin[1])
    /\ mappings = EmptyCommands
    /\ dataPlaneServiceCache = <<>>
    /\ permissions = <<>>
    /\ confidence = "none"
    /\ source = "none"
    /\ tiers = <<>>
    /\ fetches = <<0, 0>>
    /\ shown = "none"
    /\ outcomes = <<>>
    /\ exitCode = -1
    /\ prev = NoResolve

\* matchesResourceType is called on the command and the resource type name
Match ==
    /\ pc = "start"
    /\ pc' = IF matchesResourceType(cmd, Join(inputWords, "/")) THEN "accepted" ELSE "rejected"
    /\ UNCHANGED <<config, file, run, queue, cmd, mappings, dataPlaneServiceCache,
                   permissions, confidence, source, tiers, fetches, shown, outcomes,
                   exitCode, prev>>

MatchNext == Match

MatchSpec == MatchInit /\ [][MatchNext]_vars

(***************************************************************************)
(* The verb match on its own: a command and an operation name made of path *)
(* segments under a resource type, to which matchesOperation is applied.   *)
(***************************************************************************)
MaxNameSegments == 2

NameSegments ==
    {"powerOff", "action", "write", "setSecret", "restart", "scale", "read", "Delete"}

VerbLines ==
    {"az vm stop", "az vm Start", "az vm create", "az keyvault secret set", "az vm list",
     "az vm scale", "az vm resize"}

OperationName(segments) == "Microsoft.Compute/virtualMachines/" \o Join(segments, "/")

VerbInit ==
    /\ impl = "verbs"
    /\ mode = "args"
    /\ stdin \in {<<l>> : l \in VerbLines}
    /\ inputWords \in SeqsUpTo(NameSegments, MaxNameSegments)
    /\ inputWords # <<>>
    /\ layout = "plain"
    /\ history = ""
    /\ catalogId = "empty"
    /\ file = AbsentFile
    /\ run = 1
    /\ pc = "start"
    /\ queue = <<>>
    /\ cmd = ParseAzureCommand(stdin[1])
    /\ mappings = EmptyCommands
    /\ dataPlaneServiceCache = <<>>
    /\ permissions = <<>>
    /\ confidence = "none"
    /\ source = "none"
    /\ tiers = <<>>
    /\ fetches = <<0, 0>>
    /\ shown = "none"
    /\ outcomes = <<>>
    /\ exitCode = -1
    /\ prev = NoResolve

\* matchesOperation is called on the command's operation and the name
VerbMatch ==
    /\ pc = "start"
    /\ pc' = IF matchesOperation(cmd.Operation, OperationName(inputWords))
             THEN "matched" ELSE "unmatched"
    /\ UNCHANGED <<config, file, run, queue, cmd, mappings, dataPlaneServiceCache,
                   permissions, confidence, source, tiers, fetches, shown, outcomes,
                   exitCode, prev>>

VerbNext == VerbMatch

VerbSpec == VerbInit /\ [][VerbNext]_vars

(***************************************************************************)
(* The operation matcher on its own: a command of the vm service and the   *)
(* answer of the compute provider, a list of resource types, to which      *)
(* findOperationsForCommand is applied.                                    *)
(***************************************************************************)
MaxTypes == 2

TypePool ==
    [virtualMachines |-> ResourceType("virtualMachines",
        <<Op("Microsoft.Compute/virtualMachines/read"),
          Op("Microsoft.Compute/virtualMachines/powerOff/action")>>),
     disks |-> ResourceType("disks",
        <<Op("Microsoft.Compute/disks/write"),
          Op("Microsoft.Compute/disks/read"),
          Op("Microsoft.Compute/disks/beginGetAccess/action"),
          Op("Microsoft.Compute/disks/read")>>),
     galleries |-> ResourceType("galleries",
        <<Op("Microsoft.Compute/galleries/createShare/action"),
          Op("Microsoft.Compute/galleries/read")>>),
     locations |-> ResourceType("locations", <<>>)]

MatcherLines ==
    {"az vm create", "az vm list", "az vm stop", "az vm scale", "az vm delete"}

\* the provider map fetched: the compute provider with the resource types named
ComputeCatalog(typeNames) ==
    "Microsoft.Compute" :> Provider(<<>>, [i \in DOMAIN typeNames |-> TypePool[typeNames[i]]])

MatcherInit ==
    /\ impl = "operations"
    /\ mode = "args"
    /\ stdin \in {<<l>> : l \in MatcherLines}
    /\ inputWords \in SeqsUpTo(DOMAIN TypePool, MaxTypes)
    /\ layout = "plain"
    /\ history = ""
    /\ catalogId = "empty"
    /\ file = AbsentFile
    /\ run = 1
    /\ pc = "start"
    /\ queue = <<>>
    /\ cmd = ParseAzureCommand(stdin[1])
    /\ mappings = EmptyCommands
    /\ dataPlaneServiceCache = <<>>
    /\ permissions = <<>>
    /\ confidence = "none"
    /\ source = "none"
    /\ tiers = <<>>
    /\ fetches = <<0, 0>>
    /\ shown = "none"
    /\ outcomes = <<>>
    /\ exitCode = -1
    /\ prev = NoResolve

\* findOperationsForCommand is called on the command and the provider map
FindOperations ==
    /\ pc = "start"
    /\ \E provider \in mapServiceToProvider(cmd.Service) :
         \E o \in findOperationsForCommand(cmd, ComputeCatalog(inputWords), provider) :
            /\ ~o.err
            /\ permissions' = o.permissions
    /\ pc' = "found"
    /\ UNCHANGED <<config, file, run, queue, cmd, mappings, dataPlaneServiceCache,
                   confidence, source, tiers, fetches, shown, outcomes, exitCode, prev>>

MatcherNext == FindOperations

MatcherSpec == MatcherInit /\ [][MatcherNext]_vars

(***************************************************************************)
(* Properties                                                              *)
(***************************************************************************)
TierOrder == <<"live", "exact", "partial", "heuristic">>

\* a resolve has returned and its result has not been displayed yet
Returned == pc = "display"

\* the last thing that happened is the display of the last resolve's result
Displayed ==
    /\ pc \in {"resolve", "exited"}
    /\ outcomes # <<>>
    /\ outcomes[Len(outcomes)]

\* the live tier of the last resolve produced nothing
LiveFailed == source # "live"

NoDuplicates(list) ==
    \A i, j \in 1..Len(list) : list[i] = list[j] => i = j

\* the tier a result is attributed to: the pre-mapped list is returned from
\* inside the first tier
TierOf(src) == IF src = "premapped" THEN "live" ELSE src

\* C1: the tiers are attempted in the order live, exact, partial, heuristic;
\* the resolution ends at the first tier with a non-empty list, and a tier
\* with an empty list (an empty cache entry included) never ends it
C1_TierOrder ==
    Returned =>
        /\ \E i \in 1..Len(TierOrder) : tiers = SubSeq(TierOrder, i, i + Len(tiers) - 1)
        /\ permissions # <<>> => TierOf(source) = tiers[Len(tiers)]
        /\ permissions = <<>> => tiers[Len(tiers)] = "heuristic"

\* C2: a failed live tier alone never makes the resolution return empty, nor
\* the program exit non-zero, when the cache tiers can produce permissions
C2_LiveFailureFallsThrough ==
    LET laterCan == \E o \in ManagerGetPermissions(cmd, mappings, dataPlaneServiceCache, file) :
                        o.permissions # <<>>
    IN  /\ (Returned /\ LiveFailed /\ laterCan) => permissions # <<>>
        /\ (pc = "exited" /\ Len(stdin) = 1 /\ cmd.ok /\ LiveFailed /\ laterCan)
               => exitCode = 0

\* C3: with the live tier failing, a command whose full command is a key of
\* the cached mapping resolves to exactly the list stored under that key
\* (and, where the resolve returns a confidence, to Medium)
C3_ExactCacheHit ==
    (Returned /\ LiveFailed /\ cmd.FullCmd \in DOMAIN mappings) =>
        /\ permissions = mappings[cmd.FullCmd]
        /\ impl # "legacy" => confidence = "medium"

C5_ConfidenceIdentifiesTier ==
    LET reported == IF impl = "legacy" THEN shown ELSE confidence
    IN  Displayed =>
            /\ reported = "high" => source = "live"
            /\ reported = "medium" => source = "exact"
            /\ source \in {"partial", "heuristic"} => reported = "low"

\* C6: two resolves in succession of the same command, the live tier
\* succeeding against the same catalog both times, return the same
\* permission set
C6_Idempotent ==
    (Returned /\ source = "live" /\ prev.source = "live" /\ prev.FullCmd = cmd.FullCmd)
        => Range(permissions) = Range(prev.permissions)

\* C7: the list one findOperationsForCommand call returns contains no
\* permission name more than once
C7_NoDuplicates ==
    (Returned /\ impl = "cli" /\ source = "live") => NoDuplicates(permissions)

\* the verb table of the heuristic tier as the specification states it
C8_Verbs ==
    [create |-> "write", update |-> "write", set |-> "write",
     delete |-> "delete", remove |-> "delete",
     list |-> "read", show |-> "read", get |-> "read",
     start |-> "start/action", stop |-> "powerOff/action",
     restart |-> "restart/action", scale |-> "scale/action"]

\* C8: with an empty cache and a failing live tier the heuristic tier returns
\* the one-element list provider/resourceType/action when the operation is in
\* the verb table and the mapper finds a provider, and the empty list otherwise
C8_HeuristicTier ==
    (Returned /\ "heuristic" \in Range(tiers) /\ mappings = EmptyCommands) =>
        LET providers == getResourceProviderForService(cmd.Service) \ {""}
        IN  /\ IF cmd.Operation \in DOMAIN C8_Verbs /\ providers # {}
               THEN \E provider \in providers :
                        permissions = <<provider \o "/"
                                        \o getResourceTypeForService(cmd.Service) \o "/"
                                        \o C8_Verbs[cmd.Operation]>>
               ELSE permissions = <<>>
            /\ cmd.FullCmd = "vm scale"
                   => permissions = <<"Microsoft.Compute/virtualMachines/scale/action">>
            /\ cmd.FullCmd = "vm stop"
                   => permissions = <<"Microsoft.Compute/virtualMachines/powerOff/action">>
            /\ cmd.FullCmd = "group create"
                   => permissions = <<"Microsoft.Resources/subscriptions/resourceGroups/write">>

C8_Witness ==
    /\ Returned
    /\ impl = "manager"
    /\ mappings = EmptyCommands
    /\ cmd.FullCmd = "group create"
    /\ source = "heuristic"
    /\ permissions = <<"Microsoft.Resources/subscriptions/resourceGroups/write">>

\* C9: a command whose service the mapper does not know, against an empty
\* catalog and an empty cache, resolves to the empty list and every tier is
\* passed through in order
C9_UnknownService ==
    (/\ Returned
     /\ getResourceProviderForService(cmd.Service) = {""}
     /\ catalogId = "empty"
     /\ mappings = EmptyCommands)
        => /\ permissions = <<>>
           /\ \/ tiers = TierOrder
              \/ impl = "manager" /\ tiers = Tail(TierOrder)

\* C10: when input lines are supplied, the exit code is 0 exactly when every
\* non-blank input line parsed and every resolve yielded a non-empty list
C10_ExitCode ==
    (pc = "exited" /\ NonBlank(stdin) # <<>>) =>
        LET lines == NonBlank(stdin)
        IN  exitCode = 0 <=>
                /\ \A i \in 1..Len(lines) : ParseAzureCommand(lines[i]).ok
                /\ \A j \in 1..Len(outcomes) : outcomes[j]

\* C11: when no command is supplied (nothing piped or only blank lines, no
\* arguments, no command in the shell history) the program exits with code 1
C11_NoInputExitsOne ==
    (pc = "exited" /\ mode # "args" /\ NonBlank(stdin) = <<>> /\ history = "")
        => exitCode = 1

\* C12: for piped input of several non-blank lines, the commands handed to
\* the parse are the non-blank lines themselves, one by one in input order:
\* the lines still to process are always the rest of the input, and at exit
\* every line has been processed
C12_LineByLine ==
    LET lines == NonBlank(stdin)
    IN  (mode = "piped" /\ Len(lines) >= 2) =>
            /\ pc \in {"resolve", "display"} =>
                   /\ Len(outcomes) < Len(lines)
                   /\ queue = SubSeq(lines, Len(outcomes) + 1, Len(lines))
            /\ pc = "exited" => Len(outcomes) = Len(lines)

\* C13: a resolve call fetches the credential at most once and the provider
\* catalog at most once, whatever path it takes through the tiers
C13_AtMostOneFetch ==
    Returned => fetches[1] <= 1 /\ fetches[2] <= 1

\* two outcomes of a resolve that differ at most in the file they leave
SameResult(o1, o2) ==
    /\ o1.permissions = o2.permissions
    /\ o1.confidence = o2.confidence
    /\ o1.source = o2.source
    /\ o1.mappings = o2.mappings

\* every live outcome in R occurs both with the file written and with the
\* file left as it was
WriteFailureHarmless(R) ==
    \A o \in R : o.source = "live" =>
        /\ Len(o.permissions) > 0
        /\ \E w \in R : w.file = FileOf(w.mappings) /\ SameResult(w, o)
        /\ \E l \in R : l.file = file /\ SameResult(l, o)

\* C14, first half: when the cache file is absent or is not JSON, the table
\* held when the first command is resolved is exactly the built-in table
C14_DefaultsOnReadError ==
    (pc = "resolve" /\ outcomes = <<>> /\ file.state # "ok") =>
        mappings = DefaultCommands

\* C14, second half: a live resolution returns the same permissions and
\* confidence, and leads to the same exit status, whether the file is
\* written or the write fails
C14_WriteErrorIgnored ==
    /\ (pc = "resolve" /\ ParseAzureCommand(Head(queue)).ok) =>
           WriteFailureHarmless(Resolutions(ParseAzureCommand(Head(queue))))
    /\ (pc = "exited" /\ source = "live" /\ Len(outcomes) = 1 /\ outcomes[1]) =>
           exitCode = 0

\* C14: cache file I/O errors are never fatal: an unreadable or unparsable
\* file leaves exactly the built-in table, and a failed write changes neither
\* the result of a live resolution nor the exit status
C14_CacheErrorsNotFatal ==
    C14_DefaultsOnReadError /\ C14_WriteErrorIgnored

\* the parse has been applied to the input line
Parsed == pc \in {"parsed", "failed"}

IsFlag(tok) == Len(tok) >= 2 /\ SubSeq(tok, 1, 2) = "--"

\* the words left when one leading "az " is taken off the trimmed line: "az"
\* goes when another word follows it after a space
Remaining ==
    IF Len(inputWords) >= 2 /\ inputWords[1] = "az" /\ SubSeq(Layouts[layout].sep, 1, 1) = " "
    THEN Tail(inputWords)
    ELSE inputWords

\* C15: parse fails exactly when, after the trim and the removal of one
\* leading "az ", fewer than 2 words remain; with 2 or more it returns a
\* command and no error
C15_ParseFailsIffTooShort ==
    Parsed => (cmd.ok <=> Len(Remaining) >= 2)

C15_Witness ==
    /\ pc = "failed"
    /\ inputWords = <<"az", "vm">>
    /\ layout = "padded"

\* C16: when the third remaining word exists and is not a flag, the service
\* is the first two words and the operation the third; otherwise the service
\* is the first word and the operation the second; the full command is the
\* service, a space, the operation
C16_ServiceAndOperation ==
    pc = "parsed" =>
        /\ IF Len(Remaining) >= 3 /\ ~IsFlag(Remaining[3])
           THEN /\ cmd.Service = Remaining[1] \o " " \o Remaining[2]
                /\ cmd.Operation = Remaining[3]
           ELSE /\ cmd.Service = Remaining[1]
                /\ cmd.Operation = Remaining[2]
        /\ cmd.FullCmd = cmd.Service \o " " \o cmd.Operation

C16_Witness ==
    /\ pc = "parsed"
    /\ inputWords = <<"az", "storage", "account", "create", "--name", "x">>
    /\ cmd.Service = "storage account"
    /\ cmd.Operation = "create"
    /\ cmd.FullCmd = "storage account create"

\* position of the operation among the remaining words
OperationAt == IF Len(Remaining) >= 3 /\ ~IsFlag(Remaining[3]) THEN 3 ELSE 2

\* positions of the flags that follow the operation
FlagsAt == {i \in (OperationAt + 1)..Len(Remaining) : IsFlag(Remaining[i])}

KeyAt(i) == SubSeq(Remaining[i], 3, Len(Remaining[i]))

ValueAfter(i) ==
    IF i + 1 <= Len(Remaining) /\ ~IsFlag(Remaining[i + 1]) THEN Remaining[i + 1] ELSE ""

\* C17: the parameters have exactly one key per distinct flag that follows
\* the operation, and the value of a key is the word after the last
\* occurrence of its flag when that word exists and is not a flag, and the
\* empty string otherwise; a word taken as a value is never a key
C17_Parameters ==
    pc = "parsed" =>
        /\ DOMAIN cmd.Parameters = {KeyAt(i) : i \in FlagsAt}
        /\ \A i \in FlagsAt :
               (\A j \in FlagsAt : Remaining[j] = Remaining[i] => j <= i)
                   => cmd.Parameters[KeyAt(i)] = ValueAfter(i)

C17_Witness ==
    /\ pc = "parsed"
    /\ inputWords = <<"az", "group", "create", "--name", "myRG", "--location", "eastus">>
    /\ cmd.Parameters = ("name" :> "myRG") @@ ("location" :> "eastus")

\* the result of the last resolve is the one of the live tier of cmd/cli.go
CliLive == Returned /\ impl = "cli" /\ source = "live"

\* the names of the operations of the provider answer `p` that verb-match the
\* command: provider-level ones, and those of the resource types that
\* structurally match
VerbMatchedUnion(c, p) ==
    {p.Operations[i].Name : i \in {j \in DOMAIN p.Operations :
                                       matchesOperation(c.Operation, p.Operations[j].Name)}}
    \cup
    UNION {{rt.Operations[i].Name : i \in {j \in DOMAIN rt.Operations :
                                               matchesOperation(c.Operation, rt.Operations[j].Name)}} :
           rt \in {t \in Range(p.ResourceTypes) : matchesResourceType(c, t.Name)}}

\* the providers of the catalog the command can be looked up in, with at
\* least one matching operation
MatchingProviders(c, cat) ==
    {n \in mapServiceToProvider(c.Service) \cap DOMAIN cat : VerbMatchedUnion(c, cat[n]) # {}}

ReturnsMatching(c, cat, names) ==
    names # {} => \E n \in names : Range(permissions) = VerbMatchedUnion(c, cat[n])

\* C18: when the live tier succeeds and at least one operation matches, the
\* returned permissions are exactly the provider-level operations that
\* verb-match the operation together with the verb-matching operations of
\* every structurally matching resource type; so "vm start" includes
\* start/action, "vm stop" powerOff/action and "storage blob upload" the
\* blobs write operation when the catalog lists them
C18_LiveResultIsUnion ==
    CliLive =>
        /\ ReturnsMatching(cmd, Catalogs[catalogId], MatchingProviders(cmd, Catalogs[catalogId]))
        /\ (catalogId = "standard" /\ cmd.FullCmd = "vm start") =>
               "Microsoft.Compute/virtualMachines/start/action" \in Range(permissions)
        /\ (catalogId = "standard" /\ cmd.FullCmd = "vm stop") =>
               "Microsoft.Compute/virtualMachines/powerOff/action" \in Range(permissions)
        /\ (catalogId = "standard" /\ cmd.FullCmd = "storage blob upload") =>
               Range(permissions) =
                   {"Microsoft.Storage/storageAccounts/blobServices/containers/blobs/write"}

C18_Witness ==
    /\ CliLive
    /\ catalogId = "standard"
    /\ cmd.FullCmd = "storage blob upload"
    /\ permissions = <<"Microsoft.Storage/storageAccounts/blobServices/containers/blobs/write">>

TierIndex(t) == CHOOSE i \in 1..Len(TierOrder) : TierOrder[i] = t

ConfidenceLevels == {"high", "medium", "low"}

\* C19: every resolve call returns, either with permissions and a confidence
\* of high, medium or low or with the empty list, and the tiers it attempted
\* are taken in the fixed order, each at most once and none after a later
\* one, whatever the credential fetch, the catalog fetch and the cache
\* lookups gave
C19_ResolveTerminates ==
    /\ (pc = "resolve" /\ ParseAzureCommand(Head(queue)).ok) =>
           Resolutions(ParseAzureCommand(Head(queue))) # {}
    /\ Returned =>
           /\ tiers # <<>>
           /\ \A i \in DOMAIN tiers : tiers[i] \in Range(TierOrder)
           /\ \A i, j \in DOMAIN tiers : i < j => TierIndex(tiers[i]) < TierIndex(tiers[j])
           /\ permissions = <<>> \/ impl = "legacy" \/ confidence \in ConfidenceLevels
    /\ (Displayed /\ impl = "legacy") => shown \in ConfidenceLevels

C19_Witness ==
    /\ Returned
    /\ tiers = <<"live", "exact", "partial", "heuristic">>
    /\ source = "heuristic"
    /\ permissions # <<>>

\* the structural match has been applied to the resource type name
Matched == pc \in {"accepted", "rejected"}

BaseService == Fields(ToLower(cmd.Service))[1]

SubResource == Fields(ToLower(cmd.Service))[2]

\* the base-service name and its known aliases
KnownNames ==
    {BaseService} \cup (IF BaseService \in DOMAIN serviceAliases
                        THEN Range(serviceAliases[BaseService]) ELSE {})

TypeName == ToLower(Join(inputWords, "/"))

\* (a) the name contains the base-service name or one of its aliases
C20_NamesService == \E n \in KnownNames : Contains(TypeName, n)

\* (d) the sub-resource word occurs in one of the last two path segments
C20_InLastTwoSegments ==
    \E i \in DOMAIN inputWords :
        i >= Len(inputWords) - 1 /\ Contains(ToLower(inputWords[i]), SubResource)

\* (e) no "insights"/"monitoring" unless the operation mentions monitoring
C20_NotMonitoring ==
    (Contains(TypeName, "insights") \/ Contains(TypeName, "monitoring"))
        => Contains(ToLower(cmd.Operation), "monitor")

\* C20: for a data-plane command, a resource type whose name contains the
\* base-service name or an alias of it and the sub-resource word, has at least
\* one "/", has the sub-resource word in one of its last two segments, and
\* is not an insights/monitoring type (unless the operation mentions
\* monitoring), is accepted by the structural match
C20_StructuralMatchAccepts ==
    (/\ Matched
     /\ Len(Fields(cmd.Service)) >= 2
     /\ C20_NamesService
     /\ Contains(TypeName, SubResource)
     /\ Len(inputWords) >= 2
     /\ C20_InLastTwoSegments
     /\ C20_NotMonitoring) => pc = "accepted"

\* a data-plane command's resource type has been accepted
AcceptedDataPlane ==
    pc = "accepted" /\ Len(Fields(cmd.Service)) >= 2

\* conditions (a) to (d) of the structural match
C21_ShapeConditions ==
    /\ C20_NamesService
    /\ Contains(TypeName, SubResource)
    /\ Len(inputWords) >= 2
    /\ C20_InLastTwoSegments

\* the operation is about monitoring, metrics or diagnostics
C21_MonitoringOperation ==
    \E w \in {"monitor", "metric", "diagnostic"} : Contains(ToLower(cmd.Operation), w)

\* C21 as stated: every resource type accepted for a data-plane command
\* satisfies (a)-(e), where (e) lets an "insights"/"monitoring" type through
\* only for an operation that mentions monitoring
C21_AcceptedSatisfiesAll ==
    AcceptedDataPlane => C21_ShapeConditions /\ C20_NotMonitoring

\* C21 amended: every resource type accepted for a data-plane command
\* satisfies (a)-(d), and contains "insights" or "monitoring" only when the
\* operation contains "monitor", "metric" or "diagnostic"
C21_AcceptedSatisfiesAmended ==
    AcceptedDataPlane =>
        /\ C21_ShapeConditions
        /\ (Contains(TypeName, "insights") \/ Contains(TypeName, "monitoring"))
               => C21_MonitoringOperation

C21_Witness ==
    /\ AcceptedDataPlane
    /\ stdin = <<"az storage blob upload">>
    /\ inputWords = <<"storageAccounts", "blobServices", "containers", "blobs">>

\* the verb match has been applied
VerbDone == pc \in {"matched", "unmatched"}

\* the lower-case spelling of the words the names and commands are made of
LowerCase ==
    [w \in NameSegments \cup {"Start"} |->
        CASE w = "powerOff" -> "poweroff"
          [] w = "setSecret" -> "setsecret"
          [] w = "Delete" -> "delete"
          [] w = "Start" -> "start"
          [] OTHER -> w]

\* the operation of the command, case folded
FoldedOperation ==
    IF cmd.Operation \in DOMAIN LowerCase THEN LowerCase[cmd.Operation] ELSE cmd.Operation

\* the operation name without its provider and resource type, case folded
FoldedName == Join([i \in DOMAIN inputWords |-> LowerCase[inputWords[i]]], "/")

\* the name without a final "/action"
FoldedAction ==
    IF inputWords[Len(inputWords)] = "action" /\ Len(inputWords) >= 2
    THEN Join([i \in 1..(Len(inputWords) - 1) |-> LowerCase[inputWords[i]]], "/")
    ELSE FoldedName

\* the operation and the synonyms the table lists for it
VerbsFor(op) ==
    {op} \cup (IF op \in DOMAIN MatchOperationMap THEN Range(MatchOperationMap[op]) ELSE {})

\* C22: an operation name verb-matches the operation exactly when, case
\* folded, it contains the operation or one of the synonyms the table lists
\* for it, or ends in "/action" and contains one of them before that suffix;
\* for an operation the table does not list only the operation itself counts
C22_VerbMatch ==
    VerbDone =>
        /\ pc = "matched" <=>
               \/ \E v \in VerbsFor(FoldedOperation) : Contains(FoldedName, v)
               \/ /\ inputWords[Len(inputWords)] = "action"
                  /\ \E v \in VerbsFor(FoldedOperation) : Contains(FoldedAction, v)
        /\ (cmd.Operation = "stop" /\ inputWords = <<"powerOff", "action">>) => pc = "matched"
        /\ (cmd.Operation = "set" /\ inputWords = <<"setSecret", "action">>) => pc = "matched"
        /\ (cmd.Operation = "create" /\ inputWords = <<"write">>) => pc = "matched"
        /\ (cmd.Operation = "resize" /\ inputWords = <<"write">>) => pc = "unmatched"
        /\ (cmd.Operation = "scale" /\ inputWords = <<"scale", "action">>) => pc = "matched"

C22_Witness ==
    /\ pc = "matched"
    /\ cmd.Operation = "stop"
    /\ inputWords = <<"powerOff", "action">>

\* the provider answer of a run of the operation matcher
Answer == ComputeCatalog(inputWords)["Microsoft.Compute"]

\* the suggestion pass has run: nothing matched structurally and by verb
Suggested == pc = "found" /\ VerbMatchedUnion(cmd, Answer) = {}

\* the resource type the suggestion pass is said to select: the first that
\* structurally matches, else the first
SelectedType(types, matching) ==
    IF matching # {} THEN types[CHOOSE i \in matching : \A j \in matching : i <= j]
    ELSE types[1]

Selected ==
    SelectedType(Answer.ResourceTypes,
                 {i \in DOMAIN Answer.ResourceTypes :
                      matchesResourceType(cmd, Answer.ResourceTypes[i].Name)})

\* the names among `ops` that contain one of `verbs`
NamesContaining(ops, verbs) ==
    {ops[i].Name : i \in {j \in DOMAIN ops :
                              \E v \in verbs : Contains(ToLower(ops[j].Name), v)}}

\* the first name among `ops` that contains "read", as a list
FirstReadOf(ops) ==
    LET reads == {j \in DOMAIN ops : Contains(ToLower(ops[j].Name), "read")}
    IN  IF reads = {} THEN <<>>
        ELSE <<ops[CHOOSE i \in reads : \A j \in reads : i <= j].Name>>

\* what the suggestion pass is said to return, given the selected type's
\* operations and the names among them that contain a synonym
SuggestionIs(ops, hits) ==
    IF hits # {} THEN Range(permissions) = hits ELSE permissions = FirstReadOf(ops)

\* the synonyms of the verb-synonym table of the verb match
MatcherSynonyms(op) ==
    IF op \in DOMAIN MatchOperationMap THEN Range(MatchOperationMap[op]) ELSE {}

\* the patterns of the table of the suggestion pass
SuggestionSynonyms(op) ==
    IF op \in DOMAIN SuggestOperationMap THEN Range(SuggestOperationMap[op]) ELSE {}

\* C23 as stated, the verb-synonyms being those of the verb match: when
\* nothing matches, the suggestion pass returns the operations of the
\* selected resource type whose name contains a synonym of the operation,
\* else only its first "read" operation, and nothing without resource types
C23_SuggestionPass ==
    Suggested =>
        IF inputWords = <<>> THEN permissions = <<>>
        ELSE SuggestionIs(Selected.Operations,
                          NamesContaining(Selected.Operations,
                                          MatcherSynonyms(ToLower(cmd.Operation))))

\* C23 amended: the same with the synonyms of the suggestion pass's own
\* table (write for create, update and set; delete for delete and remove;
\* read for list, show and get; start; poweroff and stop; restart)
C23_SuggestionPassOwnTable ==
    Suggested =>
        IF inputWords = <<>> THEN permissions = <<>>
        ELSE SuggestionIs(Selected.Operations,
                          NamesContaining(Selected.Operations,
                                          SuggestionSynonyms(ToLower(cmd.Operation))))

C23_Witness ==
    /\ Suggested
    /\ cmd.Operation = "create"
    /\ inputWords = <<"galleries", "disks">>
    /\ permissions = <<"Microsoft.Compute/galleries/read">>

\* the structural match has been applied for a control-plane command
MatchedControlPlane == Matched /\ Len(Fields(cmd.Service)) = 1

\* the lower-case spelling of the segments of control-plane resource types
LowerSegment ==
    [w \in ControlSegments |->
        CASE w = "virtualMachines" -> "virtualmachines"
          [] w = "Machines" -> "machines"
          [] w = "instanceView" -> "instanceview"
          [] w = "resourceGroups" -> "resourcegroups"
          [] OTHER -> w]

\* the resource type name, case folded and without slashes
NormalizedType == Join([i \in DOMAIN inputWords |-> LowerSegment[inputWords[i]]], "")

\* the accepted names of the static table, slashes removed, for the
\* commands of ControlPlaneLines
AcceptedNames ==
    [l \in ControlPlaneLines |->
        CASE l = "az vm show" -> {"virtualmachines", "virtualmachinesinstanceview"}
          [] l = "az VM List" -> {"virtualmachines"}
          [] l = "az group create" -> {"subscriptionsresourcegroups"}
          [] OTHER -> {}]

\* C24: for a control-plane command a resource type is structurally matched
\* exactly when the static table has an entry for the lower-cased service
\* and operation and the type's name, slashes removed and case folded, is
\* one of the entry's names with slashes removed; without an entry nothing
\* matches
C24_ControlPlaneMatch ==
    MatchedControlPlane =>
        (pc = "accepted" <=> NormalizedType \in AcceptedNames[stdin[1]])

C24_Witness ==
    /\ pc = "accepted"
    /\ stdin = <<"az vm show">>
    /\ inputWords = <<"virtualMachines", "instanceView">>

\* the result of the data-plane rule on the command and the resource type
DataPlaneRule ==
    matchesDataPlaneResourceType(ToLower(cmd.Service), ToLower(cmd.Operation), TypeName)

\* the result of the control-plane rule on the command and the resource type
ControlPlaneRule ==
    ControlPlaneMatch(ToLower(cmd.Service), ToLower(cmd.Operation), TypeName)

SimilarKeys(c, m) ==
    {k \in DOMAIN m : /\ Len(k) >= Len(c.Service)
                      /\ SubSeq(k, 1, Len(c.Service)) = c.Service
                      /\ Contains(k, c.Operation)}

\* the tier attempted right after the partial-match tier, "" if none
AfterPartial ==
    IF \E i \in DOMAIN tiers : tiers[i] = "partial" /\ i < Len(tiers)
    THEN tiers[1 + CHOOSE i \in DOMAIN tiers : tiers[i] = "partial"]
    ELSE ""

\* C26: a result of the partial-match tier is the list of one cache key
\* that starts with the service and contains the operation, with confidence
\* low; the tier is attempted only when no key equals the full command, and
\* when no key satisfies the condition the heuristic tier is attempted next
C26_PartialMatch ==
    /\ (Returned /\ source = "partial") =>
           /\ \E k \in SimilarKeys(cmd, mappings) : permissions = mappings[k]
           /\ impl = "manager" => confidence = "low"
    /\ (Returned /\ \E i \in DOMAIN tiers : tiers[i] = "partial") =>
           /\ cmd.FullCmd \notin DOMAIN mappings
           /\ SimilarKeys(cmd, mappings) = {} => AfterPartial = "heuristic"
    /\ (Displayed /\ source = "partial" /\ impl = "legacy") => shown = "low"

C26_Witness ==
    /\ Returned
    /\ source = "partial"
    /\ cmd.FullCmd = "sql vm list"
    /\ Cardinality(SimilarKeys(cmd, mappings)) = 2
    /\ permissions = <<"Microsoft.SqlVirtualMachine/sqlVirtualMachineGroups/read">>

\* a step in which a resolve returns the result of the live tier
LiveResolveStep == pc = "resolve" /\ pc' = "display" /\ source' = "live"

\* every entry of `old` under another key than the resolved command's is in
\* `new` with the same list
OthersKept(old, new, key) ==
    \A k \in DOMAIN old \ {key} : k \in DOMAIN new /\ new[k] = old[k]

\* C27: a successful live resolution changes only the cache entry of the
\* resolved command: every entry the cache file held under another key is,
\* after the resolve, in the mapping in memory and in the cache file with
\* the same list, in every input mode
C27_OnlyOwnEntryChanges ==
    [][LiveResolveStep =>
           /\ OthersKept(file.Commands, mappings', cmd'.FullCmd)
           /\ OthersKept(file.Commands, file'.Commands, cmd'.FullCmd)]_vars

\* C28: for standard input of a single command line, the string handed to
\* the parser is the whole line, and the command that is resolved and
\* displayed is the parse of that line, with every flag and its value
C28_WholeLineParsed ==
    LET lines == NonBlank(stdin)
    IN  (mode = "piped" /\ Len(lines) = 1) =>
            /\ pc = "resolve" => queue = lines
            /\ (Returned \/ Displayed) => cmd = ParseAzureCommand(lines[1])

\* two outcomes of a resolve in which the live tier went the same way: it
\* gave a result in both, after the same fetches and the same data-plane
\* answer, or it gave none in both
LiveWentSameWay(o1, o2) ==
    IF o1.source = "live" \/ o2.source = "live"
    THEN /\ o1.source = o2.source
         /\ o1.tokenFetches = o2.tokenFetches
         /\ o1.catalogFetches = o2.catalogFetches
         /\ o1.dpCache = o2.dpCache
    ELSE TRUE

\* all the results `R` of one resolve hold the same permission set wherever
\* the live tier went the same way
SamePermissionSets(R) ==
    \A o1, o2 \in R :
        LiveWentSameWay(o1, o2) => Range(o1.permissions) = Range(o2.permissions)

\* C29: resolve is deterministic: from one state (command, mapping,
\* catalog) and with the same credential and fetch outcomes, every result a
\* resolve can return holds the same permission set
C29_Deterministic ==
    (pc = "resolve" /\ ParseAzureCommand(Head(queue)).ok) =>
        SamePermissionSets(Resolutions(ParseAzureCommand(Head(queue))))

\* a step in which a resolve returns
ResolveStep == pc = "resolve" /\ pc' = "display"

\* C30: a resolve changes the mapping only by the write-through of the live
\* tier, which stores the non-empty live result under the command: a resolve
\* whose live tier gave no result (empty, or an error) leaves the mapping
\* and the cache file as they were, so no entry written by a resolve is empty
C30_WriteThroughNonEmpty ==
    [][ResolveStep =>
           /\ source' = "live" =>
                  /\ Len(permissions') > 0
                  /\ mappings' = CachePermission(mappings, cmd'.FullCmd, permissions')
                  /\ file' \in {file, FileOf(mappings')}
           /\ source' # "live" => mappings' = mappings /\ file' = file
           /\ \A k \in DOMAIN mappings' :
                  (k \notin DOMAIN mappings \/ mappings'[k] # mappings[k])
                      => Len(mappings'[k]) > 0]_vars

\* the live tier has answered a command in a second run, the entry written
\* in the first run is in the cache file, and the mapping still holds the
\* empty list the file had under another key
C30_Witness ==
    /\ Returned /\ source = "live" /\ run = MaxRuns
    /\ file.state = "ok" /\ cmd.FullCmd \in DOMAIN file.Commands
    /\ Len(mappings[cmd.FullCmd]) > 0
    /\ "vm scale" \in DOMAIN mappings /\ mappings["vm scale"] = <<>>
====
